---------------------------- MODULE Spec2Model ----------------------------
(***************************************************************************)
(* Symptom-triage matching engine of the health-screening server:          *)
(* server/src/services/symptom_service.py, its data tables in              *)
(* server/src/services/symptom_data.py and the two route handlers of       *)
(* server/src/routes/symptom_checker.py.                                   *)
(*                                                                         *)
(* Conventions.  Python str values are TLA+ strings.  Python floats are    *)
(* exact rationals <<n, d>> (d > 0, lowest terms); round(x, k) is          *)
(* round-half-to-even on the rational.  Python None is the string "None"   *)
(* wrapped as a tagged value where it can be confused with data.           *)
(***************************************************************************)
EXTENDS Integers, Sequences, FiniteSets, TLC

VARIABLES kb, call, th

vars == <<kb, call, th>>

(***************************************************************************)
(* Knowledge base literals (symptom_data.py).  Dicts are sequences of      *)
(* <<key, value>> pairs in declaration order, which is the iteration       *)
(* order of a Python dict.  Display-only fields (icon, message,            *)
(* description) are copied through by the code and are left out.           *)
(***************************************************************************)
SYNONYM_MAP ==
  <<
    <<"cant breathe", "shortness of breath">>, <<"can't breathe", "shortness of breath">>,
    <<"hard to breathe", "shortness of breath">>,
    <<"breathing difficulty", "shortness of breath">>,
    <<"trouble breathing", "shortness of breath">>, <<"gasping", "shortness of breath">>,
    <<"out of breath", "shortness of breath">>, <<"breathless", "shortness of breath">>,
    <<"winded", "shortness of breath">>, <<"suffocating", "shortness of breath">>,
    <<"chest hurts", "chest pain">>, <<"chest ache", "chest pain">>,
    <<"heart hurts", "chest pain">>, <<"pressure in chest", "chest tightness">>,
    <<"heavy chest", "chest tightness">>, <<"chest squeeze", "chest tightness">>,
    <<"peeing a lot", "frequent urination">>, <<"pee a lot", "frequent urination">>,
    <<"always urinating", "frequent urination">>,
    <<"constant urination", "frequent urination">>, <<"blood when peeing", "blood in urine">>,
    <<"bloody urine", "blood in urine">>, <<"foamy pee", "foamy urine">>,
    <<"bubbly urine", "foamy urine">>, <<"dark pee", "dark urine">>,
    <<"brown urine", "dark urine">>, <<"pee less", "decreased urination">>,
    <<"not peeing", "decreased urination">>, <<"very thirsty", "excessive thirst">>,
    <<"always thirsty", "excessive thirst">>, <<"drink a lot of water", "excessive thirst">>,
    <<"parched", "excessive thirst">>, <<"always hungry", "increased hunger">>,
    <<"eating a lot", "increased hunger">>, <<"always tired", "fatigue">>,
    <<"no energy", "fatigue">>, <<"exhausted", "fatigue">>, <<"worn out", "fatigue">>,
    <<"drained", "fatigue">>, <<"weak", "fatigue">>, <<"low energy", "low energy">>,
    <<"lethargic", "fatigue">>, <<"sluggish", "fatigue">>,
    <<"blurry vision", "blurred vision">>, <<"cant see clearly", "blurred vision">>,
    <<"fuzzy vision", "blurred vision">>, <<"vision problems", "blurred vision">>,
    <<"heart racing", "rapid heartbeat">>, <<"fast heartbeat", "rapid heartbeat">>,
    <<"heart fluttering", "heart palpitations">>,
    <<"skipped heartbeat", "irregular heartbeat">>, <<"pounding heart", "heart palpitations">>,
    <<"heartbeat irregular", "irregular heartbeat">>, <<"feeling sad", "persistent sadness">>,
    <<"feeling down", "persistent sadness">>, <<"feeling blue", "persistent sadness">>,
    <<"feel depressed", "persistent sadness">>, <<"no motivation", "low motivation">>,
    <<"dont care anymore", "loss of interest">>, <<"lost interest", "loss of interest">>,
    <<"no interest", "loss of interest">>, <<"cant concentrate", "difficulty concentrating">>,
    <<"brain fog", "difficulty concentrating">>, <<"cant focus", "difficulty concentrating">>,
    <<"memory loss", "memory problems">>, <<"forgetful", "memory problems">>,
    <<"feeling hopeless", "hopelessness">>, <<"feeling worthless", "worthlessness">>,
    <<"feel guilty", "guilt">>, <<"cant sleep", "insomnia">>,
    <<"trouble sleeping", "sleep problems">>, <<"sleeping too much", "oversleeping">>,
    <<"mood changes", "mood swings">>, <<"nervous", "anxiety">>, <<"worried", "anxiety">>,
    <<"panic", "anxiety">>, <<"feel alone", "loneliness">>, <<"feel empty", "feeling empty">>,
    <<"withdrawn", "social withdrawal">>, <<"isolated", "social withdrawal">>,
    <<"crying a lot", "crying spells">>, <<"shaky hands", "hand tremor">>,
    <<"hands shaking", "hand tremor">>, <<"trembling", "tremor">>,
    <<"shaking hands", "hand tremor">>, <<"stiff muscles", "muscle stiffness">>,
    <<"rigid muscles", "rigid muscles">>, <<"hard to walk", "difficulty walking">>,
    <<"balance issues", "balance problems">>, <<"off balance", "impaired balance">>,
    <<"clumsy", "coordination problems">>, <<"slow moving", "slow movement">>,
    <<"shuffling feet", "shuffling walk">>, <<"small writing", "small handwriting">>,
    <<"quiet voice", "soft speech">>, <<"face expressionless", "facial masking">>,
    <<"drool", "drooling">>, <<"hard to swallow", "difficulty swallowing">>,
    <<"cant smell", "loss of smell">>, <<"head hurts", "headaches">>,
    <<"headache", "headaches">>, <<"migraine", "headaches">>, <<"back hurts", "back pain">>,
    <<"lower back hurts", "lower back pain">>, <<"arm hurts", "arm pain">>,
    <<"left arm hurts", "left arm pain">>, <<"jaw hurts", "jaw pain">>,
    <<"shoulder hurts", "shoulder pain">>, <<"body hurts", "body aches">>,
    <<"aching body", "body aches">>, <<"feet swollen", "swollen ankles">>,
    <<"legs swollen", "swollen legs">>, <<"ankles swollen", "swollen ankles">>,
    <<"puffy face", "puffy eyes">>, <<"swollen face", "puffy eyes">>,
    <<"bloated", "swelling">>, <<"itching", "itchy skin">>, <<"skin itching", "itchy skin">>,
    <<"dry patches", "dry skin">>, <<"skin dry", "dry skin">>,
    <<"dark patches", "darkened skin">>, <<"skin darkening", "darkened skin">>,
    <<"throwing up", "vomiting">>, <<"feel sick", "nausea">>, <<"queasy", "nausea">>,
    <<"no appetite", "loss of appetite">>, <<"not hungry", "loss of appetite">>,
    <<"constipated", "constipation">>, <<"blocked up", "constipation">>,
    <<"losing weight", "unexplained weight loss">>,
    <<"weight dropping", "unexplained weight loss">>, <<"gaining weight", "weight gain">>,
    <<"putting on weight", "weight gain">>, <<"dizzy", "dizziness">>,
    <<"lightheaded", "lightheadedness">>, <<"passed out", "fainting">>,
    <<"fainted", "fainting">>, <<"tingling hands", "tingling hands">>,
    <<"tingling feet", "tingling feet">>, <<"pins and needles", "tingling">>,
    <<"numb hands", "numbness in hands">>, <<"numb feet", "numbness in feet">>,
    <<"numb", "numbness">>, <<"sweaty", "cold sweats">>, <<"night sweats", "cold sweats">>,
    <<"dehydrated", "dehydration">>, <<"wounds not healing", "slow healing wounds">>,
    <<"cuts not healing", "slow healing wounds">>, <<"sweet breath", "sweet smelling breath">>,
    <<"fruity breath", "sweet smelling breath">>, <<"metallic mouth", "metallic taste">>,
    <<"taste metal", "metallic taste">>, <<"muscle cramp", "muscle cramps">>,
    <<"leg cramps", "muscle cramps">>, <<"bp high", "high blood pressure">>,
    <<"hypertension", "high blood pressure">>, <<"infections often", "frequent infections">>,
    <<"yeast infection", "yeast infections">>, <<"irritable", "irritability">>,
    <<"stressed", "stress">>, <<"restless", "restlessness">>, <<"agitated", "restlessness">>
  >>

RED_FLAG_RULES ==
  <<
    [ name |-> "Possible Heart Attack",
      required |-> <<"chest pain">>,
      supporting |-> <<"shortness of breath", "cold sweats", "left arm pain", "jaw pain", "nausea">>,
      min_supporting |-> 1,
      action |-> "Call 911 / Emergency Services NOW" ],
    [ name |-> "Possible Stroke",
      required |-> <<"numbness">>,
      supporting |-> <<"difficulty concentrating", "dizziness", "difficulty walking", "speech changes">>,
      min_supporting |-> 1,
      action |-> "Call 911 / Emergency Services NOW" ],
    [ name |-> "Diabetic Emergency",
      required |-> <<"sweet smelling breath">>,
      supporting |-> <<"nausea", "vomiting", "excessive thirst", "frequent urination", "dehydration">>,
      min_supporting |-> 2,
      action |-> "Go to Emergency Room Immediately" ],
    [ name |-> "Severe Cardiac Symptoms",
      required |-> <<"irregular heartbeat", "fainting">>,
      supporting |-> <<"chest pain", "shortness of breath", "dizziness">>,
      min_supporting |-> 0,
      action |-> "Call 911 / Emergency Services NOW" ],
    [ name |-> "Suicidal Crisis Indicators",
      required |-> <<"hopelessness", "worthlessness">>,
      supporting |-> <<"social withdrawal", "insomnia", "loss of interest", "feeling empty">>,
      min_supporting |-> 2,
      action |-> "Call/Text 988 Now" ]
  >>

SYMPTOM_DATABASE ==
  <<
    [ key |-> "heart", name |-> "Heart Disease", id |-> "heart",
      body_system |-> "Cardiovascular",
      symptoms |->
        <<
          <<"chest pain", <<3, 1>>>>, <<"chest tightness", <<3, 1>>>>,
          <<"shortness of breath", <<5, 2>>>>, <<"irregular heartbeat", <<3, 1>>>>,
          <<"heart palpitations", <<5, 2>>>>, <<"dizziness", <<3, 2>>>>,
          <<"fatigue", <<1, 1>>>>, <<"swollen legs", <<2, 1>>>>,
          <<"swollen ankles", <<2, 1>>>>, <<"cold sweats", <<2, 1>>>>, <<"nausea", <<1, 1>>>>,
          <<"jaw pain", <<2, 1>>>>, <<"arm pain", <<5, 2>>>>, <<"left arm pain", <<3, 1>>>>,
          <<"shoulder pain", <<3, 2>>>>, <<"high blood pressure", <<2, 1>>>>,
          <<"rapid heartbeat", <<5, 2>>>>, <<"fainting", <<2, 1>>>>,
          <<"lightheadedness", <<3, 2>>>>, <<"chest discomfort", <<5, 2>>>>,
          <<"difficulty breathing", <<2, 1>>>>, <<"wheezing", <<1, 1>>>>,
          <<"back pain", <<1, 2>>>>, <<"numbness", <<1, 1>>>>
        >>,
      urgency_threshold |-> <<6, 1>>,
      age_modifier |-> [threshold |-> 45, factor |-> <<6, 5>>],
      sex_modifier |-> <<<<"male", <<23, 20>>>>, <<"female", <<1, 1>>>>>> ],
    [ key |-> "diabetes", name |-> "Diabetes", id |-> "diabetes",
      body_system |-> "Endocrine",
      symptoms |->
        <<
          <<"frequent urination", <<3, 1>>>>, <<"excessive thirst", <<3, 1>>>>,
          <<"increased hunger", <<5, 2>>>>, <<"unexplained weight loss", <<5, 2>>>>,
          <<"blurred vision", <<2, 1>>>>, <<"fatigue", <<3, 2>>>>,
          <<"slow healing wounds", <<5, 2>>>>, <<"slow healing", <<5, 2>>>>,
          <<"tingling hands", <<2, 1>>>>, <<"tingling feet", <<2, 1>>>>,
          <<"numbness in hands", <<2, 1>>>>, <<"numbness in feet", <<2, 1>>>>,
          <<"dry skin", <<1, 1>>>>, <<"frequent infections", <<2, 1>>>>,
          <<"darkened skin", <<3, 2>>>>, <<"yeast infections", <<3, 2>>>>,
          <<"irritability", <<1, 1>>>>, <<"sweet smelling breath", <<3, 1>>>>,
          <<"nausea", <<1, 1>>>>, <<"vomiting", <<1, 1>>>>, <<"dehydration", <<2, 1>>>>,
          <<"weight gain", <<3, 2>>>>, <<"numbness", <<3, 2>>>>, <<"tingling", <<2, 1>>>>
        >>,
      urgency_threshold |-> <<5, 1>>,
      age_modifier |-> [threshold |-> 40, factor |-> <<23, 20>>],
      sex_modifier |-> <<<<"male", <<21, 20>>>>, <<"female", <<1, 1>>>>>> ],
    [ key |-> "kidney", name |-> "Kidney Disease", id |-> "kidney",
      body_system |-> "Renal",
      symptoms |->
        <<
          <<"swollen legs", <<5, 2>>>>, <<"swollen ankles", <<5, 2>>>>,
          <<"puffy eyes", <<5, 2>>>>, <<"frequent urination", <<2, 1>>>>,
          <<"decreased urination", <<3, 1>>>>, <<"blood in urine", <<3, 1>>>>,
          <<"foamy urine", <<3, 1>>>>, <<"dark urine", <<2, 1>>>>, <<"fatigue", <<3, 2>>>>,
          <<"nausea", <<3, 2>>>>, <<"vomiting", <<3, 2>>>>, <<"loss of appetite", <<3, 2>>>>,
          <<"muscle cramps", <<2, 1>>>>, <<"back pain", <<2, 1>>>>,
          <<"lower back pain", <<5, 2>>>>, <<"high blood pressure", <<2, 1>>>>,
          <<"difficulty sleeping", <<1, 1>>>>, <<"dry skin", <<1, 1>>>>,
          <<"itchy skin", <<2, 1>>>>, <<"metallic taste", <<2, 1>>>>,
          <<"shortness of breath", <<3, 2>>>>, <<"swelling", <<2, 1>>>>,
          <<"ankle swelling", <<5, 2>>>>, <<"dehydration", <<3, 2>>>>,
          <<"weight loss", <<1, 1>>>>
        >>,
      urgency_threshold |-> <<5, 1>>,
      age_modifier |-> [threshold |-> 50, factor |-> <<11, 10>>],
      sex_modifier |-> <<<<"male", <<21, 20>>>>, <<"female", <<1, 1>>>>>> ],
    [ key |-> "depression", name |-> "Depression", id |-> "depression",
      body_system |-> "Mental Health",
      symptoms |->
        <<
          <<"persistent sadness", <<3, 1>>>>, <<"sadness", <<5, 2>>>>,
          <<"hopelessness", <<3, 1>>>>, <<"loss of interest", <<3, 1>>>>,
          <<"fatigue", <<2, 1>>>>, <<"sleep problems", <<5, 2>>>>, <<"insomnia", <<5, 2>>>>,
          <<"oversleeping", <<2, 1>>>>, <<"appetite changes", <<2, 1>>>>,
          <<"weight changes", <<3, 2>>>>, <<"difficulty concentrating", <<5, 2>>>>,
          <<"anxiety", <<2, 1>>>>, <<"irritability", <<2, 1>>>>, <<"restlessness", <<3, 2>>>>,
          <<"guilt", <<2, 1>>>>, <<"worthlessness", <<3, 1>>>>,
          <<"social withdrawal", <<5, 2>>>>, <<"low energy", <<2, 1>>>>,
          <<"low motivation", <<5, 2>>>>, <<"crying spells", <<2, 1>>>>,
          <<"body aches", <<1, 1>>>>, <<"headaches", <<1, 1>>>>,
          <<"memory problems", <<3, 2>>>>, <<"mood swings", <<2, 1>>>>,
          <<"feeling empty", <<3, 1>>>>, <<"loneliness", <<2, 1>>>>, <<"stress", <<3, 2>>>>
        >>,
      urgency_threshold |-> <<5, 1>>,
      age_modifier |-> [threshold |-> 0, factor |-> <<1, 1>>],
      sex_modifier |-> <<<<"male", <<1, 1>>>>, <<"female", <<11, 10>>>>>> ]
  >>

FOLLOW_UP_QUESTIONS ==
  <<
    <<"heart",
      <<
         [id |-> "pain_radiation", type |-> "yesno",
          yes_boost |-> <<<<"left arm pain", <<2, 1>>>>, <<"jaw pain", <<3, 2>>>>>>],
         [id |-> "exertion_trigger", type |-> "yesno",
          yes_boost |-> <<<<"chest pain", <<1, 1>>>>, <<"shortness of breath", <<1, 1>>>>>>],
         [id |-> "family_history", type |-> "yesno",
          yes_boost |-> <<<<"_global", <<6, 5>>>>>>]
      >> >>,
    <<"diabetes",
      <<
         [id |-> "wound_healing", type |-> "yesno",
          yes_boost |-> <<<<"slow healing wounds", <<2, 1>>>>>>],
         [id |-> "vision_change", type |-> "yesno",
          yes_boost |-> <<<<"blurred vision", <<3, 2>>>>>>],
         [id |-> "family_diabetes", type |-> "yesno",
          yes_boost |-> <<<<"_global", <<23, 20>>>>>>]
      >> >>,
    <<"kidney",
      <<
         [id |-> "urine_change", type |-> "select",
          options |-> <<"Darker than usual", "Foamy/bubbly", "Much less output", "No changes">>,
          boosts |->
          << <<"Darker than usual", <<<<"dark urine", <<2, 1>>>>>>>>,
             <<"Foamy/bubbly", <<<<"foamy urine", <<2, 1>>>>>>>>,
             <<"Much less output", <<<<"decreased urination", <<2, 1>>>>>>>> >>],
         [id |-> "swelling_location", type |-> "select",
          options |-> <<"Around eyes", "Ankles/feet", "Hands", "No swelling">>,
          boosts |->
          << <<"Around eyes", <<<<"puffy eyes", <<2, 1>>>>>>>>,
             <<"Ankles/feet", <<<<"swollen ankles", <<2, 1>>>>>>>> >>]
      >> >>,
    <<"depression",
      <<
         [id |-> "duration", type |-> "select",
          options |-> <<"Less than 2 weeks", "2-4 weeks", "1-3 months", "More than 3 months">>,
          boosts |->
          << <<"2-4 weeks", <<<<"_global", <<11, 10>>>>>>>>,
             <<"1-3 months", <<<<"_global", <<6, 5>>>>>>>>,
             <<"More than 3 months", <<<<"_global", <<13, 10>>>>>>>> >>],
         [id |-> "daily_impact", type |-> "yesno",
          yes_boost |-> <<<<"_global", <<6, 5>>>>>>],
         [id |-> "self_harm", type |-> "yesno",
          yes_boost |-> <<<<"_crisis", TRUE>>>>]
      >> >>
  >>
(***************************************************************************)
(* Python str and dict primitives used by the service.                     *)
(***************************************************************************)
\* `p in s` for two str values.
str_in(p, s) ==
  IF Len(p) = 0 THEN TRUE
  ELSE IF Len(p) > Len(s) THEN FALSE
  ELSE \E i \in 1..(Len(s) - Len(p) + 1) : SubSeq(s, i, i + Len(p) - 1) = p

\* the letters str.lower() changes in the phrases handled here
UpperToLower ==
  ("A" :> "a") @@ ("B" :> "b") @@ ("C" :> "c") @@ ("D" :> "d") @@ ("E" :> "e") @@
  ("F" :> "f") @@ ("G" :> "g") @@ ("H" :> "h") @@ ("I" :> "i") @@ ("J" :> "j") @@
  ("K" :> "k") @@ ("L" :> "l") @@ ("M" :> "m") @@ ("N" :> "n") @@ ("O" :> "o") @@
  ("P" :> "p") @@ ("Q" :> "q") @@ ("R" :> "r") @@ ("S" :> "s") @@ ("T" :> "t") @@
  ("U" :> "u") @@ ("V" :> "v") @@ ("W" :> "w") @@ ("X" :> "x") @@ ("Y" :> "y") @@
  ("Z" :> "z")

lower_char(c) == IF c \in DOMAIN UpperToLower THEN UpperToLower[c] ELSE c

RECURSIVE str_lower(_)
\* s.lower()
str_lower(s) ==
  IF Len(s) = 0 THEN s
  ELSE lower_char(SubSeq(s, 1, 1)) \o str_lower(SubSeq(s, 2, Len(s)))

is_space(c) == c \in {" ", "\t", "\n"}

RECURSIVE str_lstrip(_)
str_lstrip(s) ==
  IF Len(s) > 0 /\ is_space(SubSeq(s, 1, 1)) THEN str_lstrip(SubSeq(s, 2, Len(s))) ELSE s

RECURSIVE str_rstrip(_)
str_rstrip(s) ==
  IF Len(s) > 0 /\ is_space(SubSeq(s, Len(s), Len(s)))
  THEN str_rstrip(SubSeq(s, 1, Len(s) - 1)) ELSE s

\* s.strip()
str_strip(s) == str_rstrip(str_lstrip(s))

RECURSIVE str_split_from(_, _, _)
\* words of s found from position i on, cur being the word under construction
str_split_from(s, i, cur) ==
  IF i > Len(s) THEN (IF cur = "" THEN <<>> ELSE <<cur>>)
  ELSE LET c == SubSeq(s, i, i) IN
       IF is_space(c)
       THEN (IF cur = "" THEN <<>> ELSE <<cur>>) \o str_split_from(s, i + 1, "")
       ELSE str_split_from(s, i + 1, cur \o c)

\* s.split(): the list of whitespace-separated words
str_split(s) == str_split_from(s, 1, "")

\* set(seq)
set_of(seq) == {seq[i] : i \in 1..Len(seq)}

\* a list comprehension, evaluated once: [f(1), ..., f(n)] as a list
list_of(f) == f \o <<>>

\* dict primitives over <<key, value>> pair sequences
dict_has(d, k) == \E i \in 1..Len(d) : d[i][1] = k
dict_get(d, k) == d[CHOOSE i \in 1..Len(d) : d[i][1] = k][2]

(***************************************************************************)
(* Synonym expansion.                                                      *)
(***************************************************************************)
\* `phrase in lower or lower in phrase` for the table entry at position i
synonym_hit(lower, i) ==
  LET phrase == kb.SYNONYM_MAP[i][1]
  IN  str_in(phrase, lower) \/ str_in(lower, phrase)

\* a hit later in the table than every other hit
last_hit(hits) == CHOOSE i \in hits : \A j \in hits : i >= j

\* `for phrase, canonical in SYNONYM_MAP.items()`: the entries are visited in
\* declaration order, so the entry that returns is the first hit
first_hit(hits) == CHOOSE i \in hits : \A j \in hits : i <= j

\* the loop returning the matched phrase in place of its canonical name
synonym_scan_phrase(lower) ==
  LET returned(hits) == IF hits = {} THEN lower ELSE kb.SYNONYM_MAP[first_hit(hits)][1]
  IN  returned({i \in 1..Len(kb.SYNONYM_MAP) : synonym_hit(lower, i)})

\* the for loop of expand_synonyms, and the `return lower` after it
synonym_scan(lower) ==
  LET returned(hits) == IF hits = {} THEN lower ELSE kb.SYNONYM_MAP[first_hit(hits)][2]
  IN  returned({i \in 1..Len(kb.SYNONYM_MAP) : synonym_hit(lower, i)})

expand_synonyms(symptom_text) ==
  LET resolve(lower) ==
        IF dict_has(kb.SYNONYM_MAP, lower)
        THEN dict_get(kb.SYNONYM_MAP, lower)
        ELSE synonym_scan(lower)
  IN  resolve(str_strip(str_lower(symptom_text)))
(***************************************************************************)
(* Python float arithmetic, over exact rationals <<n, d>>.                 *)
(***************************************************************************)
RECURSIVE gcd(_, _)
gcd(a, b) == IF b = 0 THEN a ELSE gcd(b, a % b)

abs(n) == IF n < 0 THEN -n ELSE n

Norm(n, d) ==
  LET over(g) == <<n \div g, d \div g>>
  IN  IF n = 0 THEN <<0, 1>> ELSE over(gcd(abs(n), d))

Zero == <<0, 1>>
One == <<1, 1>>
FromInt(n) == <<n, 1>>

RMul(x, y) ==
  LET over(g1, g2) == <<(x[1] \div g1) * (y[1] \div g2), (x[2] \div g2) * (y[2] \div g1)>>
  IN  IF x[1] = 0 \/ y[1] = 0 THEN Zero
      ELSE over(gcd(abs(x[1]), y[2]), gcd(abs(y[1]), x[2]))
RAdd(x, y) ==
  LET over(g) == Norm(x[1] * (y[2] \div g) + y[1] * (x[2] \div g), (x[2] \div g) * y[2])
  IN  over(gcd(x[2], y[2]))
RSub(x, y) == RAdd(x, <<-y[1], y[2]>>)
RDiv(x, y) == RMul(x, <<y[2], y[1]>>)
RLt(x, y) == RSub(x, y)[1] < 0
RLe(x, y) == RSub(x, y)[1] <= 0
RGt(x, y) == RLt(y, x)
RGe(x, y) == RLe(y, x)
RMin(x, y) == IF RLe(x, y) THEN x ELSE y
RMax(x, y) == IF RGe(x, y) THEN x ELSE y

\* round(x * scale) for x >= 0, ties to even
RoundInt(x, scale) ==
  LET nearest(y) ==
        LET q == y[1] \div y[2]
            r == y[1] % y[2]
        IN  IF 2 * r < y[2] THEN q
            ELSE IF 2 * r > y[2] THEN q + 1
            ELSE IF q % 2 = 0 THEN q ELSE q + 1
  IN  nearest(RMul(x, FromInt(scale)))

\* round(x, 1) and round(x, 2)
round1(x) == Norm(RoundInt(x, 10), 10)
round2(x) == Norm(RoundInt(x, 100), 100)

(***************************************************************************)
(* difflib.SequenceMatcher(None, a, b).ratio() for strings under 200       *)
(* characters (no junk, no autojunk): 2 * M / T, M the total size of the   *)
(* matching blocks found by repeatedly taking the longest matching block   *)
(* (leftmost in a, then leftmost in b) and recursing on both sides.        *)
(***************************************************************************)
RECURSIVE common_ext(_, _, _, _, _, _)
\* the number of equal characters from a[i], b[j] on, inside a[..ahi], b[..bhi]
common_ext(a, b, i, j, ahi, bhi) ==
  IF i > ahi \/ j > bhi THEN 0
  ELSE IF a[i] # b[j] THEN 0
  ELSE 1 + common_ext(a, b, i + 1, j + 1, ahi, bhi)

\* find_longest_match over a[alo..ahi], b[blo..bhi] (1-based, inclusive): <<i, j, k>> with
\* a[i..i+k-1] = b[j..j+k-1], k maximal, then i minimal, then j minimal.  b2j[i] is the set
\* of positions of the character a[i] in b.  A longest block cannot be extended to the
\* left, so only such starting points are candidates.
find_longest_match(a, b, b2j, alo, ahi, blo, bhi) ==
  LET starts(i) == {j \in b2j[i] : /\ blo <= j /\ j <= bhi
                                    /\ (i = alo \/ j = blo \/ a[i - 1] # b[j - 1])}
      before(m, o) ==
        \/ m[3] > o[3]
        \/ m[3] = o[3] /\ (m[1] < o[1] \/ (m[1] = o[1] /\ m[2] <= o[2]))
      first_longest(sized) ==
        IF sized = {} THEN <<alo, blo, 0>>
        ELSE CHOOSE m \in sized : \A o \in sized : before(m, o)
  IN  first_longest(UNION {{<<i, j, common_ext(a, b, i, j, ahi, bhi)>> : j \in starts(i)}
                           : i \in alo..ahi})

RECURSIVE matching_size(_, _, _, _, _, _, _)
\* total size of get_matching_blocks restricted to a[alo..ahi], b[blo..bhi]
matching_size(a, b, b2j, alo, ahi, blo, bhi) ==
  IF alo > ahi \/ blo > bhi THEN 0
  ELSE LET around(m) ==
             IF m[3] = 0 THEN 0
             ELSE m[3] + matching_size(a, b, b2j, alo, m[1] - 1, blo, m[2] - 1)
                       + matching_size(a, b, b2j, m[1] + m[3], ahi, m[2] + m[3], bhi)
       IN  around(find_longest_match(a, b, b2j, alo, ahi, blo, bhi))

\* the characters of a str, as a sequence
chars(s) == list_of([i \in 1..Len(s) |-> SubSeq(s, i, i)])

_fuzzy_similarity(a0, b0) ==
  LET blocks(a, b, b2j) == matching_size(a, b, b2j, 1, Len(a), 1, Len(b))
      ratio(a, b) ==
        IF Len(a) + Len(b) = 0 THEN One
        ELSE Norm(2 * blocks(a, b, list_of([i \in 1..Len(a) |->
                                               {j \in 1..Len(b) : b[j] = a[i]}])),
                  Len(a) + Len(b))
  IN  ratio(chars(str_lower(a0)), chars(str_lower(b0)))
(***************************************************************************)
(* JSON values of a request body: [t |-> kind, v |-> payload].             *)
(***************************************************************************)
JNull == [t |-> "null", v |-> <<>>]
JStr(s) == [t |-> "str", v |-> s]
JNum(n) == [t |-> "num", v |-> n]
JBool(b) == [t |-> "bool", v |-> b]
\* a JSON number outside the float range, such as 1e999, is read as float("inf")
JInf == [t |-> "float", v |-> "inf"]
JList(items) == [t |-> "list", v |-> items]
JDict(pairs) == [t |-> "dict", v |-> pairs]

\* Python truth value of a JSON value
truthy(j) ==
  CASE j.t = "null" -> FALSE
    [] j.t = "str" -> j.v # ""
    [] j.t = "num" -> j.v # 0
    [] j.t = "bool" -> j.v
    [] j.t = "float" -> TRUE
    [] OTHER -> Len(j.v) > 0

(***************************************************************************)
(* Core symptom matching.                                                  *)
(***************************************************************************)
NoMatch == [has |-> FALSE, match |-> "", score |-> Zero]

\* the update without its test: the last candidate wins
take_always(known_symptom, score, best) ==
  [has |-> TRUE, match |-> known_symptom, score |-> score]

\* `if score > best_score: best_match = known_symptom; best_score = score`
take(known_symptom, score, best) ==
  IF RGt(score, best.score) THEN [has |-> TRUE, match |-> known_symptom, score |-> score]
  ELSE best

\* the word-level overlap branch
word_overlap(canonical, known_symptom, weight, best) ==
  LET overlap_of(user_words, symptom_words) ==
        LET no == Cardinality(user_words \cap symptom_words)
            nu == Cardinality(user_words)
            ns == Cardinality(symptom_words)
            maxw == IF nu >= ns THEN nu ELSE ns
        IN  IF no >= 1 /\ 10 * no > 4 * maxw
            THEN take(known_symptom, RMul(weight, Norm(no, ns)), best)
            ELSE best
  IN  overlap_of(set_of(str_split(canonical)), set_of(str_split(known_symptom)))

\* the elif/else chain after the exact-match test
after_chain(canonical, known_symptom, weight, best) ==
  IF str_in(canonical, known_symptom) \/ str_in(known_symptom, canonical)
  THEN take(known_symptom, weight, best)
  ELSE word_overlap(canonical, known_symptom, weight, best)

\* the threshold test with `>` for `>=`
fuzzy_accept_strict(known_symptom, weight, similarity, chained) ==
  IF RGt(similarity, <<3, 4>>)
  THEN take(known_symptom, RMul(weight, similarity), chained)
  ELSE chained

\* `if similarity >= 0.75 and (weight * similarity) > best_score: ...`
fuzzy_accept(known_symptom, weight, similarity, chained) ==
  IF RGe(similarity, <<3, 4>>)
  THEN take(known_symptom, RMul(weight, similarity), chained)
  ELSE chained

\* the fuzzy match, tried when 0.75 * weight > best_score
fuzzy_step_three_quarters(canonical, known_symptom, weight, chained) ==
  IF RGt(RMul(weight, <<3, 4>>), chained.score)
  THEN fuzzy_accept(known_symptom, weight, _fuzzy_similarity(canonical, known_symptom), chained)
  ELSE chained

\* the fuzzy match, tried when weight > best_score
fuzzy_step(canonical, known_symptom, weight, chained) ==
  IF RGt(weight, chained.score)
  THEN fuzzy_accept(known_symptom, weight, _fuzzy_similarity(canonical, known_symptom), chained)
  ELSE chained

\* one iteration of `for known_symptom, weight in disease_info["symptoms"].items()`
\* for a canonical form that is not equal to known_symptom
known_step(canonical, known_symptom, weight, best) ==
  fuzzy_step(canonical, known_symptom, weight,
             after_chain(canonical, known_symptom, weight, best))

RECURSIVE known_scan_no_break(_, _, _, _)
\* the loop with an exact match treated as one more candidate: taken only when
\* its weight is higher than the best so far, and the scan goes on
known_scan_no_break(symptoms, canonical, k, best) ==
  IF k > Len(symptoms) THEN best
  ELSE IF canonical = symptoms[k][1]
  THEN known_scan_no_break(symptoms, canonical, k + 1,
                           take(symptoms[k][1], symptoms[k][2], best))
  ELSE LET onward(stepped) ==
             IF stepped.has
             THEN known_scan_no_break(symptoms, canonical, k + 1, stepped)
             ELSE known_scan_no_break(symptoms, canonical, k + 1, NoMatch)
       IN  onward(known_step(canonical, symptoms[k][1], symptoms[k][2], best))

RECURSIVE known_scan(_, _, _, _)
\* the loop over the known symptoms of one disease from position k on
known_scan(symptoms, canonical, k, best) ==
  IF k > Len(symptoms) THEN best
  ELSE IF canonical = symptoms[k][1]
  THEN [has |-> TRUE, match |-> symptoms[k][1], score |-> symptoms[k][2]]
  ELSE LET onward(stepped) ==
             IF stepped.has
             THEN known_scan(symptoms, canonical, k + 1, stepped)
             ELSE known_scan(symptoms, canonical, k + 1, NoMatch)
       IN  onward(known_step(canonical, symptoms[k][1], symptoms[k][2], best))

best_known(disease_info, canonical) == known_scan(disease_info.symptoms, canonical, 1, NoMatch)

\* `severity_map or {}`, then what `.get` can be called on
sev_is_mapping(severity_map) == ~truthy(severity_map) \/ severity_map.t = "dict"
sev_pairs(severity_map) == IF truthy(severity_map) THEN severity_map.v ELSE <<>>

\* severity_map.get(user_symptom, "moderate")
sev_get(severity_map, user_symptom) ==
  IF dict_has(sev_pairs(severity_map), user_symptom)
  THEN dict_get(sev_pairs(severity_map), user_symptom)
  ELSE JStr("moderate")

hashable(j) == j.t \notin {"list", "dict"}

\* {"mild": 0.7, "moderate": 1.0, "severe": 1.4}.get(sev, 1.0)
sev_multiplier(sev) ==
  IF sev.t # "str" THEN One
  ELSE CASE sev.v = "mild" -> <<7, 10>>
         [] sev.v = "moderate" -> One
         [] sev.v = "severe" -> <<7, 5>>
         [] OTHER -> One

\* what one user symptom contributes to one disease: the matched entry, or none
symptom_match(disease_info, user_symptom, canonical, severity_map) ==
  LET entry_of(best, sev, best_score) ==
        [ kind |-> "matched",
          best_score |-> best_score,
          entry |-> [ user_input |-> user_symptom,
                      matched_to |-> best.match,
                      weight |-> round2(best_score),
                      severity |-> sev ] ]
      scored(best, sev) ==
        IF ~hashable(sev) THEN [kind |-> "TypeError"]
        ELSE entry_of(best, sev, RMul(best.score, sev_multiplier(sev)))
      matched_by(best) ==
        IF best.has /\ RGt(best.score, Zero)
        THEN IF ~sev_is_mapping(severity_map) THEN [kind |-> "AttributeError"]
             ELSE scored(best, sev_get(severity_map, user_symptom))
        ELSE [kind |-> "none"]
  IN  matched_by(best_known(disease_info, canonical))

\* `total_score = best_score` in place of `total_score += best_score`
r_last(seq, i) == IF Len(seq) = 0 THEN Zero ELSE seq[Len(seq)]

RECURSIVE r_sum(_, _)
\* `total_score += best_score` over the matched symptoms from position i on
r_sum(seq, i) == IF i > Len(seq) THEN Zero ELSE RAdd(seq[i], r_sum(seq, i + 1))

RECURSIVE first_weights_sum(_, _)
\* the sum of the first n weights in table order, unsorted
first_weights_sum(symptoms, n) ==
  IF n = 0 \/ symptoms = <<>> THEN Zero
  ELSE RAdd(symptoms[1][2], first_weights_sum(Tail(symptoms), n - 1))

\* sum(sorted(weights, reverse=True)[:n])
top_weights_sum(symptoms, n) ==
  LET idx == 1..Len(symptoms)
      rank(i) == Cardinality({j \in idx : \/ RGt(symptoms[j][2], symptoms[i][2])
                                          \/ symptoms[j][2] = symptoms[i][2] /\ j < i})
      top == {i \in idx : rank(i) < n}
      RECURSIVE acc(_)
      acc(i) == IF i > Len(symptoms) THEN Zero
                ELSE IF i \in top THEN RAdd(symptoms[i][2], acc(i + 1)) ELSE acc(i + 1)
  IN  acc(1)

\* the urgency tiers with > in place of >=
urgency_of_strict(score, threshold) ==
  IF RGt(score, RMul(threshold, <<3, 2>>)) THEN "high"
  ELSE IF RGt(score, threshold) THEN "moderate"
  ELSE "low"

urgency_of(score, threshold) ==
  IF RGe(score, RMul(threshold, <<3, 2>>)) THEN "high"
  ELSE IF RGe(score, threshold) THEN "moderate"
  ELSE "low"

triage_of(urgency, confidence) ==
  IF urgency = "high" /\ RGt(confidence, <<1, 2>>) THEN "urgent"
  ELSE IF urgency = "high" THEN "prompt"
  ELSE IF urgency = "moderate" THEN "standard"
  ELSE "informational"

\* the notes and the factor of the demographic modifiers
demo_age(disease_info, age) ==
  age.t # "null" /\ age.v >= disease_info.age_modifier.threshold
demo_sex_factor(disease_info, sex) ==
  IF truthy(sex) /\ dict_has(disease_info.sex_modifier, str_lower(sex.v))
  THEN dict_get(disease_info.sex_modifier, str_lower(sex.v))
  ELSE One
pct(factor) == RoundInt(RSub(factor, One), 100)
age_note(disease_info, age) ==
  IF demo_age(disease_info, age)
  THEN << "Age " \o ToString(age.v) \o " increases " \o disease_info.name
          \o " risk (+" \o ToString(pct(disease_info.age_modifier.factor)) \o "%)" >>
  ELSE <<>>
sex_note(factor) ==
  IF factor # One
  THEN << "Sex-based risk adjustment (+" \o ToString(pct(factor)) \o "%)" >>
  ELSE <<>>
demo_notes(disease_info, age, sex) ==
  age_note(disease_info, age) \o sex_note(demo_sex_factor(disease_info, sex))
\* the factor without the sex modifier
demo_factor_age_only(disease_info, age, sex) ==
  IF demo_age(disease_info, age) THEN disease_info.age_modifier.factor ELSE One

demo_factor(disease_info, age, sex) ==
  RMul(IF demo_age(disease_info, age) THEN disease_info.age_modifier.factor ELSE One,
       demo_sex_factor(disease_info, sex))

\* round(x, 2) without the 0.99 cap
uncapped_confidence(x) == round2(x)

\* min(round(x, 2), 0.99)
capped_confidence(x) == RMin(round2(x), <<99, 100>>)

\* lines 252-318 of the loop body: the result dict of a disease with matches
disease_result(disease_info, n, age, sex, matched, total_score) ==
  LET tiered(adjusted_score, confidence, urgency) ==
        [ name |-> disease_info.name,
          id |-> disease_info.id,
          body_system |-> disease_info.body_system,
          confidence |-> confidence,
          score |-> round1(adjusted_score),
          raw_score |-> round1(total_score),
          matched_symptoms |-> matched,
          urgency |-> urgency,
          triage |-> triage_of(urgency, confidence),
          symptom_count |-> Len(matched),
          total_symptoms_checked |-> n,
          demographic_notes |-> demo_notes(disease_info, age, sex),
          has_followup_questions |->
            /\ dict_has(kb.FOLLOW_UP_QUESTIONS, disease_info.key)
            /\ RGe(confidence, <<3, 20>>) /\ RLe(confidence, <<13, 20>>) ]
      rated(adjusted_score, confidence) ==
        tiered(adjusted_score, confidence,
               urgency_of(adjusted_score, disease_info.urgency_threshold))
      adjusted(adjusted_score) ==
        rated(adjusted_score,
              capped_confidence(RDiv(adjusted_score,
                                     RMax(top_weights_sum(disease_info.symptoms, n), One))))
  IN  adjusted(RMul(total_score, demo_factor(disease_info, age, sex)))

\* the body of `for disease_key, disease_info in SYMPTOM_DATABASE.items()`:
\* an error, no result (nothing matched), or the result appended
score_disease(disease_info, user_symptoms, canonical_symptoms, age, sex, severity_map) ==
  LET n == Len(user_symptoms)
      hit(m) == m.kind = "matched"
      collect(per) ==
        LET errs == {i \in 1..n : per[i].kind \in {"AttributeError", "TypeError"}}
            hits == SelectSeq(per, hit)
        IN  IF errs # {} THEN [kind |-> per[CHOOSE i \in errs : \A j \in errs : i <= j].kind]
            ELSE IF Len(hits) = 0 THEN [kind |-> "none"]
            ELSE [ kind |-> "result",
                   result |->
                     disease_result(disease_info, n, age, sex,
                                    list_of([i \in 1..Len(hits) |-> hits[i].entry]),
                                    r_sum(list_of([i \in 1..Len(hits) |-> hits[i].best_score]), 1)) ]
  IN  collect(list_of([i \in 1..n |->
                symptom_match(disease_info, user_symptoms[i], canonical_symptoms[i],
                              severity_map)]))

\* a descending sort that is not stable: results with equal score are reversed
sort_by_score_reversing_ties(results) ==
  LET idx == 1..Len(results)
      rank(i) == Cardinality({j \in idx : \/ RGt(results[j].score, results[i].score)
                                          \/ results[j].score = results[i].score /\ j > i})
  IN  list_of([p \in idx |-> results[CHOOSE i \in idx : rank(i) = p - 1]])

\* results.sort(key=lambda x: x["score"], reverse=True): stable, descending
sort_by_score(results) ==
  LET idx == 1..Len(results)
      rank(i) == Cardinality({j \in idx : \/ RGt(results[j].score, results[i].score)
                                          \/ results[j].score = results[i].score /\ j < i})
  IN  list_of([p \in idx |-> results[CHOOSE i \in idx : rank(i) = p - 1]])

\* the loop body of Step 1 logging every expansion, changed or not
expansion_entry_always(s) == <<[original |-> s, resolved_to |-> expand_synonyms(s)]>>

\* the loop body of Step 1: the log entry of one symptom, if any
expansion_entry(s) ==
  LET logged(expanded) ==
        IF expanded # str_strip(str_lower(s))
        THEN <<[original |-> s, resolved_to |-> expanded]>>
        ELSE <<>>
  IN  logged(expand_synonyms(s))

RECURSIVE expansion_log_from(_, _)
\* Step 1 of match_symptoms, from position i on: the expansion log
expansion_log_from(user_symptoms, i) ==
  IF i > Len(user_symptoms) THEN <<>>
  ELSE expansion_entry(user_symptoms[i]) \o expansion_log_from(user_symptoms, i + 1)

match_symptoms(user_symptoms, age, sex, severity_map) ==
  LET db == kb.SYMPTOM_DATABASE
      got(x) == x.kind = "result"
      collect(per) ==
        LET errs == {d \in 1..Len(db) : per[d].kind \in {"AttributeError", "TypeError"}}
            hits == SelectSeq(per, got)
        IN  IF errs # {}
            THEN [ error |-> per[CHOOSE d \in errs : \A e \in errs : d <= e].kind,
                   results |-> <<>>, expansion_log |-> <<>> ]
            ELSE [ error |-> "",
                   results |-> sort_by_score(list_of([i \in 1..Len(hits) |-> hits[i].result])),
                   expansion_log |-> expansion_log_from(user_symptoms, 1) ]
      scored(canonical_symptoms) ==
        collect(list_of([d \in 1..Len(db) |->
                  score_disease(db[d], user_symptoms, canonical_symptoms, age, sex,
                                severity_map)]))
  IN  scored(list_of([i \in 1..Len(user_symptoms) |-> expand_synonyms(user_symptoms[i])]))
(***************************************************************************)
(* Red-flag detection.                                                     *)
(***************************************************************************)
\* any(x in s or s in x for s in symptom_set)
flag_present(x, symptom_set) == \E s \in symptom_set : str_in(x, s) \/ str_in(s, x)

\* the rule test without the supporting count
rule_fires_required(rule, symptom_set) ==
  \A i \in 1..Len(rule.required) : flag_present(rule.required[i], symptom_set)

\* the rule test with the supporting count compared by > in place of >=
rule_fires_strict(rule, symptom_set) ==
  LET required_met == \A i \in 1..Len(rule.required) : flag_present(rule.required[i], symptom_set)
      supporting_count ==
        Cardinality({i \in 1..Len(rule.supporting) : flag_present(rule.supporting[i], symptom_set)})
  IN  required_met /\ supporting_count > rule.min_supporting

\* the body of `for rule in RED_FLAG_RULES`: TRUE when the rule appends its alert
rule_fires(rule, symptom_set) ==
  LET required_met == \A i \in 1..Len(rule.required) : flag_present(rule.required[i], symptom_set)
      supporting_count ==
        Cardinality({i \in 1..Len(rule.supporting) : flag_present(rule.supporting[i], symptom_set)})
  IN  required_met /\ supporting_count >= rule.min_supporting

check_red_flags(canonical_symptoms) ==
  LET symptom_set == set_of(canonical_symptoms)
      fires(rule) == rule_fires(rule, symptom_set)
      fired == SelectSeq(kb.RED_FLAG_RULES, fires)
  IN  list_of([i \in 1..Len(fired) |->
                 [name |-> fired[i].name, action |-> fired[i].action, severity |-> "critical"]])

(***************************************************************************)
(* Input validation.                                                       *)
(***************************************************************************)
MaxSymptomCount == 20

\* validate_symptoms without the "and s.strip()" filter: blank strings are kept
validate_symptoms_keep_blank(symptoms) ==
  IF ~truthy(symptoms) \/ symptoms.t # "list"
  THEN [cleaned |-> <<>>, error |-> "Please provide a list of symptoms"]
  ELSE LET keep(s) == s.t = "str"
           kept == SelectSeq(symptoms.v, keep)
           cleaned == list_of([i \in 1..Len(kept) |-> str_strip(kept[i].v)])
       IN  IF Len(cleaned) = 0
           THEN [cleaned |-> <<>>, error |-> "Please provide at least one valid symptom"]
           ELSE IF Len(cleaned) > MaxSymptomCount
           THEN [cleaned |-> <<>>, error |-> "Please provide no more than 20 symptoms at a time"]
           ELSE [cleaned |-> cleaned, error |-> ""]

\* (cleaned, error); error "" stands for None
validate_symptoms(symptoms) ==
  IF ~truthy(symptoms) \/ symptoms.t # "list"
  THEN [cleaned |-> <<>>, error |-> "Please provide a list of symptoms"]
  ELSE LET keep(s) == s.t = "str" /\ str_strip(s.v) # ""
           kept == SelectSeq(symptoms.v, keep)
           cleaned == list_of([i \in 1..Len(kept) |-> str_strip(kept[i].v)])
       IN  IF Len(cleaned) = 0
           THEN [cleaned |-> <<>>, error |-> "Please provide at least one valid symptom"]
           ELSE IF Len(cleaned) > MaxSymptomCount
           THEN [cleaned |-> <<>>, error |-> "Please provide no more than 20 symptoms at a time"]
           ELSE [cleaned |-> cleaned, error |-> ""]

Digits == ("0" :> 0) @@ ("1" :> 1) @@ ("2" :> 2) @@ ("3" :> 3) @@ ("4" :> 4) @@
          ("5" :> 5) @@ ("6" :> 6) @@ ("7" :> 7) @@ ("8" :> 8) @@ ("9" :> 9)

RECURSIVE digits_value(_, _)
\* the value of the digit string s read after the prefix value acc
digits_value(s, acc) ==
  IF Len(s) = 0 THEN acc
  ELSE digits_value(SubSeq(s, 2, Len(s)), 10 * acc + Digits[SubSeq(s, 1, 1)])

\* int(age): [ok, v]; ValueError and TypeError give ok = FALSE, OverflowError is "overflow"
py_int(age) ==
  CASE age.t = "num" -> [ok |-> "ok", v |-> age.v]
    [] age.t = "bool" -> [ok |-> "ok", v |-> IF age.v THEN 1 ELSE 0]
    [] age.t = "float" -> [ok |-> IF age.v = "inf" THEN "overflow" ELSE "error", v |-> 0]
    [] age.t = "str" ->
         LET s == str_strip(age.v)
             neg == Len(s) > 0 /\ SubSeq(s, 1, 1) = "-"
             body == IF Len(s) > 0 /\ SubSeq(s, 1, 1) \in {"-", "+"}
                     THEN SubSeq(s, 2, Len(s)) ELSE s
             numeric == Len(body) > 0
                        /\ \A i \in 1..Len(body) : SubSeq(body, i, i) \in DOMAIN Digits
         IN  IF numeric
             THEN [ok |-> "ok", v |-> IF neg THEN -digits_value(body, 0) ELSE digits_value(body, 0)]
             ELSE [ok |-> "error", v |-> 0]
    [] OTHER -> [ok |-> "error", v |-> 0]

\* str(x) for a JSON value; the repr of a list or dict equals none of the texts compared with
py_str(j) ==
  CASE j.t = "str" -> j.v
    [] j.t = "num" -> ToString(j.v)
    [] j.t = "bool" -> IF j.v THEN "True" ELSE "False"
    [] j.t = "float" -> j.v
    [] j.t = "null" -> "None"
    [] j.t = "list" -> "[...]"
    [] OTHER -> "{...}"

\* (validated_age, validated_sex), or the uncaught OverflowError of int(age)
validate_demographics(age, sex) ==
  LET sex_of(text) == IF text \in {"male", "female", "other"} THEN JStr(text) ELSE JNull
      validated_sex == IF truthy(sex) THEN sex_of(str_lower(py_str(sex))) ELSE JNull
      age_of(n) ==
        IF n.ok = "overflow"
        THEN [error |-> "OverflowError", age |-> JNull, sex |-> JNull]
        ELSE [ error |-> "",
               age |-> IF n.ok = "ok" /\ n.v >= 0 /\ n.v <= 150 THEN JNum(n.v) ELSE JNull,
               sex |-> validated_sex ]
  IN  IF age.t = "null" THEN [error |-> "", age |-> JNull, sex |-> validated_sex]
      ELSE age_of(py_int(age))

(***************************************************************************)
(* Follow-up answer processing.                                            *)
(***************************************************************************)
\* one boost entry applied with '_global' changing the score only
apply_boost_score_only(r, boost_symptom, boost_val, is_yesno) ==
  IF boost_symptom = "_global"
  THEN [r EXCEPT !.score = round1(RMul(r.score, boost_val))]
  ELSE IF is_yesno /\ boost_symptom = "_crisis" THEN r
  ELSE [r EXCEPT !.score = round1(RAdd(r.score, boost_val))]

\* one boost entry applied to a result
apply_boost(r, boost_symptom, boost_val, is_yesno) ==
  IF boost_symptom = "_global"
  THEN [r EXCEPT !.score = round1(RMul(r.score, boost_val)),
                 !.confidence = capped_confidence(RMul(r.confidence, boost_val))]
  ELSE IF is_yesno /\ boost_symptom = "_crisis" THEN r
  ELSE [r EXCEPT !.score = round1(RAdd(r.score, boost_val))]

RECURSIVE apply_boosts(_, _, _, _)
\* `for boost_symptom, boost_val in boosts.items()` from position i on
apply_boosts(r, boosts, i, is_yesno) ==
  IF i > Len(boosts) THEN r
  ELSE LET onward(nr) ==
             IF nr = r THEN apply_boosts(r, boosts, i + 1, is_yesno)
             ELSE apply_boosts(nr, boosts, i + 1, is_yesno)
       IN  onward(apply_boost(r, boosts[i][1], boosts[i][2], is_yesno))

\* answers.get(q["id"]); JNull stands for None
answer_of(answers, q) ==
  IF dict_has(answers, q.id) THEN dict_get(answers, q.id) ELSE JNull

is_yes(answer) == str_lower(py_str(answer)) \in {"yes", "true", "1"}

\* the boosts with an option that is not declared taken for the first option
boosts_for_any_option(q, answer) ==
  IF answer.t = "null" THEN <<>>
  ELSE IF q.type = "yesno" /\ is_yes(answer) THEN q.yes_boost
  ELSE IF q.type = "select" /\ dict_has(q.boosts, py_str(answer))
  THEN dict_get(q.boosts, py_str(answer))
  ELSE IF q.type = "select" THEN q.boosts[1][2]
  ELSE <<>>

\* the boosts that the answer to question q applies
boosts_for(q, answer) ==
  IF answer.t = "null" THEN <<>>
  ELSE IF q.type = "yesno" /\ is_yes(answer) THEN q.yes_boost
  ELSE IF q.type = "select" /\ dict_has(q.boosts, py_str(answer))
  THEN dict_get(q.boosts, py_str(answer))
  ELSE <<>>

\* the crisis trigger on any answer to the question, yes or no
crisis_in_answered(q, answer) ==
  /\ answer.t # "null" /\ q.type = "yesno"
  /\ dict_has(q.yes_boost, "_crisis")

\* `elif boost_symptom == "_crisis": crisis_triggered = True` is reached
crisis_in(q, answer) ==
  /\ answer.t # "null" /\ q.type = "yesno" /\ is_yes(answer)
  /\ dict_has(q.yes_boost, "_crisis")

\* FOLLOW_UP_QUESTIONS.get(disease_id, [])
questions_of(disease_id) ==
  IF dict_has(kb.FOLLOW_UP_QUESTIONS, disease_id)
  THEN dict_get(kb.FOLLOW_UP_QUESTIONS, disease_id) ELSE <<>>

RECURSIVE boost_result(_, _, _, _)
\* `for q in disease_qs` from position i on
boost_result(r, qs, i, answers) ==
  IF i > Len(qs) THEN r
  ELSE LET onward(nr) ==
             IF nr = r THEN boost_result(r, qs, i + 1, answers)
             ELSE boost_result(nr, qs, i + 1, answers)
       IN  onward(apply_boosts(r, boosts_for(qs[i], answer_of(answers, qs[i])), 1,
                               qs[i].type = "yesno"))

\* SYMPTOM_DATABASE.get(r["id"], {}).get("urgency_threshold", 5)
threshold_of(disease_id) ==
  LET db == kb.SYMPTOM_DATABASE
      hit == {d \in 1..Len(db) : db[d].key = disease_id}
  IN  IF hit = {} THEN <<5, 1>> ELSE db[CHOOSE d \in hit : TRUE].urgency_threshold

\* the result with the urgency and triage it had before the boosts
not_retiered(r) == r

\* the body of the loop that re-evaluates urgency after the score changes
retier(r) ==
  LET against(threshold) ==
        IF RGe(r.score, RMul(threshold, <<3, 2>>))
        THEN [r EXCEPT !.urgency = "high", !.triage = "urgent"]
        ELSE IF RGe(r.score, threshold)
        THEN [r EXCEPT !.urgency = "moderate", !.triage = "standard"]
        ELSE [r EXCEPT !.urgency = "low", !.triage = "informational"]
  IN  against(threshold_of(r.id))

\* (updated_results, crisis_triggered)
apply_followup_boosts(results, answers0) ==
  LET answers == IF answers0.t = "dict" THEN answers0.v ELSE <<>>
      crisis_triggered ==
        \E i \in 1..Len(results) :
          \E k \in 1..Len(questions_of(results[i].id)) :
            crisis_in(questions_of(results[i].id)[k],
                      answer_of(answers, questions_of(results[i].id)[k]))
      retiered(sorted) == list_of([i \in 1..Len(sorted) |-> retier(sorted[i])])
  IN  [ results |->
          retiered(sort_by_score(list_of([i \in 1..Len(results) |->
            boost_result(results[i], questions_of(results[i].id), 1, answers)]))),
        crisis_triggered |-> crisis_triggered ]

(***************************************************************************)
(* Advice, grouping, follow-up questions.                                  *)
(***************************************************************************)
\* the advice chosen from the results alone, whatever the alerts
generate_advice_ignoring_alerts(results, user_symptoms, emergency_alerts) ==
  [ level |-> IF Len(results) = 0 THEN "informational"
              ELSE IF results[1].urgency = "high" THEN "urgent"
              ELSE IF results[1].urgency = "moderate" THEN "standard"
              ELSE "informational",
    text |-> "",
    self_care |-> <<"", "", "">> ]

generate_advice(results, user_symptoms, emergency_alerts) ==
  IF Len(emergency_alerts) > 0
  THEN [ level |-> "emergency",
         text |-> "CRITICAL: Some of your symptoms match patterns associated with medical emergencies. "
                  \o "Please review the emergency alerts above and seek immediate medical attention.",
         self_care |-> <<>> ]
  ELSE IF Len(results) = 0
  THEN [ level |-> "informational",
         text |-> "Based on the symptoms you described, I wasn't able to find a strong match "
                  \o "with the conditions in our database. Consider consulting a healthcare "
                  \o "professional for a thorough evaluation.",
         self_care |-> << "Keep a symptom diary to track patterns",
                          "Stay hydrated and get adequate rest",
                          "Schedule a check-up with your primary care physician" >> ]
  ELSE LET top == results[1] IN
       IF top.urgency = "high"
       THEN [ level |-> "urgent",
              text |-> "Your symptoms show a notable alignment with " \o top.name \o ". "
                       \o "I strongly recommend consulting a healthcare professional promptly. "
                       \o "You can take our " \o top.name
                       \o " risk assessment for a more detailed analysis.",
              self_care |-> << "Do not ignore persistent or worsening symptoms",
                               "Seek medical attention within 24-48 hours",
                               "Consider our detailed " \o top.name
                                 \o " assessment for more insights" >> ]
       ELSE IF top.urgency = "moderate"
       THEN [ level |-> "standard",
              text |-> "Your symptoms have some alignment with " \o top.name \o ". "
                       \o "Consider taking our detailed assessment for a more comprehensive evaluation. "
                       \o "A follow-up with your doctor is also advisable.",
              self_care |-> << "Monitor your symptoms and note any changes",
                               "Maintain healthy lifestyle habits",
                               "Schedule a routine check-up with your doctor" >> ]
       ELSE [ level |-> "informational",
              text |-> "Your symptoms show a mild correlation with " \o top.name \o ". "
                       \o "While this may not be urgent, you can take our assessment for peace of mind, "
                       \o "or monitor your symptoms and consult a doctor if they persist.",
              self_care |-> << "Continue monitoring your symptoms",
                               "Maintain a healthy diet and exercise routine",
                               "Consult a healthcare provider if symptoms persist beyond 2 weeks" >> ]

group_by_body_system(results) ==
  LET idx == 1..Len(results)
      first(i) == \A j \in idx : j < i => results[j].body_system # results[i].body_system
      heads == SelectSeq(list_of([i \in idx |-> i]), first)
      of_system(system) ==
        LET in_system(r) == r.body_system = system IN SelectSeq(results, in_system)
  IN  list_of([g \in 1..Len(heads) |->
                 [ system |-> results[heads[g]].body_system,
                   diseases |-> of_system(results[heads[g]].body_system) ]])

DefaultMaxDiseases == 3

\* the questions of the first max_diseases results among the flagged ones
collect_followup_questions_flagged_first(results, max_diseases) ==
  LET flagged(r) == r.has_followup_questions
      all == SelectSeq(results, flagged)
      kept == SubSeq(all, 1, IF Len(all) < max_diseases THEN Len(all) ELSE max_diseases)
  IN  list_of([i \in 1..Len(kept) |->
                 [ disease_id |-> kept[i].id,
                   disease_name |-> kept[i].name,
                   questions |-> questions_of(kept[i].id) ]])

collect_followup_questions(results, max_diseases) ==
  LET top == SubSeq(results, 1, IF Len(results) < max_diseases THEN Len(results) ELSE max_diseases)
      flagged(r) == r.has_followup_questions
      kept == SelectSeq(top, flagged)
  IN  list_of([i \in 1..Len(kept) |->
                 [ disease_id |-> kept[i].id,
                   disease_name |-> kept[i].name,
                   questions |-> questions_of(kept[i].id) ]])
(***************************************************************************)
(* Route handlers (routes/symptom_checker.py).  A response is              *)
(* [status, success, error, analysis]; an exception that leaves the        *)
(* handler is answered by the 500 error handler of the application.        *)
(***************************************************************************)
NoAnalysis == [present |-> FALSE]

bad_request(message) ==
  [status |-> 400, success |-> FALSE, error |-> message, analysis |-> NoAnalysis]

server_error ==
  [status |-> 500, success |-> FALSE, error |-> "Internal server error", analysis |-> NoAnalysis]

ok_response(analysis) ==
  [status |-> 200, success |-> TRUE, error |-> "", analysis |-> analysis]

\* data.get(key, default)
data_get(data, key, default) ==
  IF dict_has(data.v, key) THEN dict_get(data.v, key) ELSE default

\* [expand_synonyms(s) for s in symptoms]
canonical_for_flags(symptoms) ==
  list_of([i \in 1..Len(symptoms) |-> expand_synonyms(symptoms[i])])

\* the "analysis" object of the symptom-check response
check_analysis(symptoms, demo, results, expansion_log, emergency_alerts) ==
  [ input_symptoms |-> symptoms,
    expansion_log |-> expansion_log,
    diseases |-> results,
    body_system_groups |-> group_by_body_system(results),
    advice |-> generate_advice(results, symptoms, emergency_alerts),
    emergency |-> Len(emergency_alerts) > 0,
    emergency_alerts |-> emergency_alerts,
    followup_questions |-> collect_followup_questions(results, DefaultMaxDiseases),
    demographics |-> [age |-> demo.age, sex |-> demo.sex],
    total_symptoms_analyzed |-> Len(symptoms),
    diseases_screened |-> 4 ]

check_symptoms(data) ==
  LET delegated(symptoms, demo, emergency_alerts, matched) ==
        IF matched.error # "" THEN server_error
        ELSE ok_response(check_analysis(symptoms, demo, matched.results,
                                        matched.expansion_log, emergency_alerts))
      with_demographics(symptoms, demo) ==
        IF demo.error # "" THEN server_error
        ELSE delegated(symptoms, demo, check_red_flags(canonical_for_flags(symptoms)),
                       match_symptoms(symptoms, demo.age, demo.sex,
                                      data_get(data, "severity_map", JDict(<<>>))))
      with_symptoms(validated) ==
        IF validated.error # "" THEN bad_request(validated.error)
        ELSE with_demographics(validated.cleaned,
                               validate_demographics(data_get(data, "age", JNull),
                                                     data_get(data, "sex", JNull)))
  IN  IF ~truthy(data) THEN bad_request("Request body is required")
      ELSE IF data.t # "dict" THEN server_error
      ELSE with_symptoms(validate_symptoms(data_get(data, "symptoms", JList(<<>>))))

CrisisAlert ==
  [name |-> "Suicidal Crisis Indicators", action |-> "Call/Text 988 Now", severity |-> "critical"]

\* the alerts after the crisis trigger has been handled
with_crisis(emergency_alerts, crisis_triggered) ==
  LET has_crisis == \E i \in 1..Len(emergency_alerts) :
                       emergency_alerts[i].name = "Suicidal Crisis Indicators"
  IN  IF crisis_triggered /\ ~has_crisis THEN Append(emergency_alerts, CrisisAlert)
      ELSE emergency_alerts

\* the "analysis" object of the symptom-followup response
followup_analysis(symptoms, demo, results, emergency_alerts) ==
  [ input_symptoms |-> symptoms,
    diseases |-> results,
    body_system_groups |-> group_by_body_system(results),
    advice |-> generate_advice(results, symptoms, emergency_alerts),
    emergency |-> Len(emergency_alerts) > 0,
    emergency_alerts |-> emergency_alerts,
    followup_questions |-> <<>>,
    demographics |-> [age |-> demo.age, sex |-> demo.sex],
    total_symptoms_analyzed |-> Len(symptoms),
    diseases_screened |-> 4 ]

symptom_followup(data) ==
  LET refined(symptoms, demo, boosted) ==
        ok_response(followup_analysis(symptoms, demo, boosted.results,
                             with_crisis(check_red_flags(canonical_for_flags(symptoms)),
                                         boosted.crisis_triggered)))
      delegated(symptoms, demo, matched) ==
        IF matched.error # "" THEN server_error
        ELSE refined(symptoms, demo,
                     apply_followup_boosts(matched.results,
                                           data_get(data, "answers", JDict(<<>>))))
      with_demographics(symptoms, demo) ==
        IF demo.error # "" THEN server_error
        ELSE delegated(symptoms, demo,
                       match_symptoms(symptoms, demo.age, demo.sex,
                                      data_get(data, "severity_map", JDict(<<>>))))
      with_symptoms(validated) ==
        IF validated.error # "" THEN bad_request(validated.error)
        ELSE with_demographics(validated.cleaned,
                               validate_demographics(data_get(data, "age", JNull),
                                                     data_get(data, "sex", JNull)))
  IN  IF ~truthy(data) THEN bad_request("Request body is required")
      ELSE IF data.t # "dict" THEN server_error
      ELSE with_symptoms(validate_symptoms(data_get(data, "symptoms", JList(<<>>))))
(***************************************************************************)
(* State.  kb is the module-level data of symptom_data.py.  call holds the *)
(* arguments and the return values of calls of the service functions; th   *)
(* holds the requests being served by the route handlers.                  *)
(***************************************************************************)
KB0 ==
  [ SYNONYM_MAP |-> SYNONYM_MAP, RED_FLAG_RULES |-> RED_FLAG_RULES,
    SYMPTOM_DATABASE |-> SYMPTOM_DATABASE, FOLLOW_UP_QUESTIONS |-> FOLLOW_UP_QUESTIONS ]

Off == [pc |-> "off"]

SynonymKeys == {SYNONYM_MAP[i][1] : i \in 1..Len(SYNONYM_MAP)}
CanonicalNames == {SYNONYM_MAP[i][2] : i \in 1..Len(SYNONYM_MAP)}
KnownSymptoms ==
  UNION {{SYMPTOM_DATABASE[d].symptoms[i][1] : i \in 1..Len(SYMPTOM_DATABASE[d].symptoms)}
         : d \in 1..Len(SYMPTOM_DATABASE)}

(***************************************************************************)
(* expand_synonyms called on a phrase, then on its own result.  The        *)
(* phrases are every key and value of the synonym table, every symptom of  *)
(* the condition table, and free text with capitals, blanks, supersets and *)
(* fragments of keys, and words the table does not know.                   *)
(***************************************************************************)
ExtraPhrases ==
  { "", "a", "pain", "breath", "heart", "chest", "urine", "swollen", "Chest Pain",
    "  cant breathe ", "I FEEL WEAK", "dizzy spells", "my head hurts a lot", "tired",
    "sore throat", "cough", "numbness in my feet", "Nausea\t", "weakness", "sad" }

SynInputs == SynonymKeys \cup CanonicalNames \cup KnownSymptoms \cup ExtraPhrases

InitSyn ==
  /\ kb = KB0
  /\ call \in {[pc |-> "call", x |-> x, y |-> "", z |-> ""] : x \in SynInputs}
  /\ th = Off

\* y := expand_synonyms(x)
SynExpand ==
  /\ call.pc = "call"
  /\ call' = [call EXCEPT !.pc = "again", !.y = expand_synonyms(call.x)]
  /\ UNCHANGED <<kb, th>>

\* z := expand_synonyms(y)
SynExpandAgain ==
  /\ call.pc = "again"
  /\ call' = [call EXCEPT !.pc = "done", !.z = expand_synonyms(call.y)]
  /\ UNCHANGED <<kb, th>>

NextSyn == SynExpand \/ SynExpandAgain

SpecSyn == InitSyn /\ [][NextSyn]_vars

\* C8: for every canonical symptom name x (a value of the synonym table),
\* expanding the expansion of x gives the expansion of x again.
C8_Idempotent ==
  (call.pc = "done" /\ call.x \in CanonicalNames) => call.z = call.y

\* a canonical name that expand_synonyms moves, expanded twice
C8_Witness ==
  /\ call.pc = "done" /\ call.x \in CanonicalNames
  /\ call.y # call.x /\ call.z = call.y

\* the phrase expand_synonyms looks up: lower-cased and trimmed
C9_phrase == str_strip(str_lower(call.x))

\* table position i is substring-compatible with the looked-up phrase
C9_compatible(i) ==
  \/ str_in(SYNONYM_MAP[i][1], C9_phrase)
  \/ str_in(C9_phrase, SYNONYM_MAP[i][1])

\* C9: expand_synonyms lower-cases and trims its input and returns the table
\* mapping when the phrase is a key; otherwise the mapping of the first key in
\* declaration order that is contained in the phrase or contains it;
\* otherwise the lower-cased phrase itself.
C9_Resolution ==
  call.pc \in {"again", "done"} =>
    LET idx == 1..Len(SYNONYM_MAP)
        exact == {i \in idx : SYNONYM_MAP[i][1] = C9_phrase}
        compat == {i \in idx : C9_compatible(i)}
    IN  /\ exact # {} => \E i \in exact : call.y = SYNONYM_MAP[i][2]
        /\ (exact = {} /\ compat # {}) =>
             \E i \in compat : /\ \A j \in compat : i <= j
                               /\ call.y = SYNONYM_MAP[i][2]
        /\ (exact = {} /\ compat = {}) => call.y = C9_phrase

\* a phrase that is no key and is compatible with two keys of different
\* mappings, resolved to the mapping of the earlier one
C9_Witness ==
  /\ call.pc = "again"
  /\ \A i \in 1..Len(SYNONYM_MAP) : SYNONYM_MAP[i][1] # C9_phrase
  /\ \E i, j \in 1..Len(SYNONYM_MAP) :
        /\ i < j /\ C9_compatible(i) /\ C9_compatible(j)
        /\ SYNONYM_MAP[i][2] # SYNONYM_MAP[j][2]
        /\ \A k \in 1..(i-1) : ~C9_compatible(k)
        /\ call.y = SYNONYM_MAP[i][2]

\* C28: every symptom name of the condition tables is a fixed point of
\* expand_synonyms, so that a known symptom name typed exactly is matched
\* against itself.
C28_KnownFixedPoints ==
  (call.pc \in {"again", "done"} /\ call.x \in KnownSymptoms) => call.y = call.x
(***************************************************************************)
(* check_red_flags called on a list of canonical symptoms, and the         *)
(* symptom-check handler called with a request that carries a symptom      *)
(* list only, as the emergency-detection test of the repository does.      *)
(***************************************************************************)
\* symptoms of the five rules, a fragment ("pain"), a superset of a rule
\* symptom, and a symptom of no rule
RfPool ==
  << "chest pain", "nausea", "numbness", "dizziness", "sweet smelling breath", "vomiting",
     "irregular heartbeat", "fainting", "hopelessness", "worthlessness", "insomnia",
     "social withdrawal", "pain", "severe chest pain at night", "headache" >>

RfMaxLen == 4

\* the elements of a set of positions, in increasing order
seq_of(S) ==
  list_of([i \in 1..Cardinality(S) |-> CHOOSE x \in S : Cardinality({y \in S : y < x}) = i - 1])

reversed(s) == list_of([i \in 1..Len(s) |-> s[Len(s) + 1 - i]])

\* the sublists of pool (entries in pool order) of at most n entries
sublists(pool, n) ==
  LET sub(p) == list_of([i \in 1..Len(p) |-> pool[p[i]]])
  IN  {sub(seq_of(S)) : S \in {T \in SUBSET (1..Len(pool)) : Cardinality(T) <= n}}

\* the sublists of RfPool of at most RfMaxLen symptoms, and each sublist of at
\* most two symptoms followed by itself reversed (repeated entries, other order)
RfLists ==
  sublists(RfPool, RfMaxLen)
    \cup {l \o reversed(l) : l \in sublists(RfPool, 2) \ {<<>>}}

\* raw symptom texts of a request
ReqPool == <<"Chest Pain", "cant breathe", "nausea", " jaw pain ", "headache", "cold sweats">>

ReqMaxLen == 2

RECURSIVE lists_over(_, _)
\* the lists of at most n entries of the sequence pool
lists_over(pool, n) ==
  IF n = 0 THEN {<<>>}
  ELSE LET shorter == lists_over(pool, n - 1)
       IN  shorter \cup {Append(l, pool[i]) : l \in shorter, i \in 1..Len(pool)}

\* the JSON body {"symptoms": [...]}
symptoms_body(symptoms) ==
  JDict(<< <<"symptoms", JList(list_of([i \in 1..Len(symptoms) |-> JStr(symptoms[i])]))>> >>)

InitFlags ==
  /\ kb = KB0
  /\ th = Off
  /\ \/ call \in {[pc |-> "flags", symptoms |-> l, alerts |-> <<>>, response |-> bad_request("")]
                    : l \in RfLists}
     \/ call \in {[pc |-> "request", symptoms |-> l, alerts |-> <<>>, response |-> bad_request("")]
                    : l \in lists_over(ReqPool, ReqMaxLen)}

\* alerts := check_red_flags(symptoms)
RfCheck ==
  /\ call.pc = "flags"
  /\ call' = [call EXCEPT !.pc = "flagged", !.alerts = check_red_flags(call.symptoms)]
  /\ UNCHANGED <<kb, th>>

\* response := POST /symptom-check {"symptoms": symptoms}
RfRespond ==
  /\ call.pc = "request"
  /\ call' = [call EXCEPT !.pc = "responded",
                          !.response = check_symptoms(symptoms_body(call.symptoms))]
  /\ UNCHANGED <<kb, th>>

NextFlags == RfCheck \/ RfRespond

SpecFlags == InitFlags /\ [][NextFlags]_vars

\* a rule symptom is present: it equals, is contained in, or contains a symptom of S
C2_present(x, S) == \E s \in S : x = s \/ str_in(x, s) \/ str_in(s, x)

\* every required symptom present, and at least min_supporting supporting ones
C2_satisfied(rule, S) ==
  /\ \A i \in 1..Len(rule.required) : C2_present(rule.required[i], S)
  /\ Cardinality({i \in 1..Len(rule.supporting) : C2_present(rule.supporting[i], S)})
       >= rule.min_supporting

\* chest pain and one of the five supporting symptoms are among S
C2_heart_attack(S) ==
  /\ "chest pain" \in S
  /\ S \cap {"shortness of breath", "cold sweats", "left arm pain", "jaw pain", "nausea"} # {}

C2_names(alerts) == list_of([i \in 1..Len(alerts) |-> alerts[i].name])

\* C2: check_red_flags returns an alert for a rule if and only if all required
\* symptoms of the rule are present and at least min_supporting of its
\* supporting symptoms are present (presence is equality or containment either
\* way); the alerts come in rule declaration order, at most one per rule.  Any
\* input with chest pain and one of shortness of breath, cold sweats, left arm
\* pain, jaw pain, nausea yields 'Possible Heart Attack', and the response to
\* such a request has emergency = true.
C2_RedFlags ==
  /\ call.pc = "flagged" =>
       LET S == set_of(call.symptoms)
           satisfied(rule) == C2_satisfied(rule, S)
           expected == SelectSeq(RED_FLAG_RULES, satisfied)
       IN  /\ C2_names(call.alerts) = list_of([i \in 1..Len(expected) |-> expected[i].name])
           /\ C2_heart_attack(S) =>
                \E i \in 1..Len(call.alerts) : call.alerts[i].name = "Possible Heart Attack"
  /\ call.pc = "responded" =>
       LET S == {expand_synonyms(call.symptoms[i]) : i \in 1..Len(call.symptoms)}
       IN  C2_heart_attack(S) =>
             /\ call.response.status = 200
             /\ call.response.analysis.emergency = TRUE
             /\ \E i \in 1..Len(call.response.analysis.emergency_alerts) :
                   call.response.analysis.emergency_alerts[i].name = "Possible Heart Attack"

\* chest pain with a supporting symptom: two rules fire on one call, the heart
\* attack rule first
C2_Witness ==
  /\ call.pc = "flagged"
  /\ Len(call.alerts) >= 2
  /\ C2_heart_attack(set_of(call.symptoms))
  /\ call.alerts[1].name = "Possible Heart Attack"

\* the rule an alert comes from
C27_rule(name) ==
  RED_FLAG_RULES[CHOOSE i \in 1..Len(RED_FLAG_RULES) : RED_FLAG_RULES[i].name = name]

\* C27: a red-flag rule fires only when the user supplied at least as many
\* distinct canonical symptoms as the rule has required symptoms plus
\* min_supporting: one symptom is never counted twice, so no rule with
\* min_supporting >= 1 fires on a single symptom.
C27_DistinctSymptoms ==
  call.pc = "flagged" =>
    \A i \in 1..Len(call.alerts) :
      Cardinality(set_of(call.symptoms))
        >= Len(C27_rule(call.alerts[i].name).required)
             + C27_rule(call.alerts[i].name).min_supporting
(***************************************************************************)
(* match_symptoms called on a symptom list with demographics and a         *)
(* severity map of its documented types; then called again with one more   *)
(* symptom, or followed by apply_followup_boosts on its results.           *)
(***************************************************************************)
\* raw symptom texts: synonyms, exact names, capitals and blanks, a typo, and
\* a text that matches nothing
MsPool ==
  <<"hopelessness", "worthlessness", "cant breathe", " Chest Pain", "chest pian", "zzz">>

MsMaxLen == 2

\* the sublists of MsPool of 1 to MsMaxLen symptoms, and the pairs reversed
MsLists ==
  (sublists(MsPool, MsMaxLen) \ {<<>>}) \cup {reversed(l) : l \in sublists(MsPool, 2)}

\* further lists: three symptoms of depression among five, which puts the
\* adjusted score at 1.5 times the threshold and the confidence at 0.5; a
\* symptom of all four conditions after a symptom of depression alone; and two
\* symptoms of kidney disease of total weight 4.5, which the age factor 1.1
\* puts at 4.95, just under the threshold 5
MsLongLists ==
  { <<"hopelessness", "worthlessness", "stress", "zzz", "zzz">>,
    <<"hopelessness", "fatigue">>,
    <<"swollen legs", "back pain">> }

\* the symptom appended by the second call
MsExtras == {"jaw pain", "tired"}

\* (age, sex, severity_map) as the handlers pass them: validated age and sex,
\* the request's severity map (labels known and unknown), or None
MsContexts ==
  { [age |-> JNull, sex |-> JNull, severity_map |-> JDict(<<>>)],
    [age |-> JNum(70), sex |-> JStr("female"),
     severity_map |-> JDict(<< <<"tired", JStr("severe")>>, <<"hopelessness", JStr("mild")>>,
                               <<"jaw pain", JStr("mild")>>, <<"cant breathe", JStr("extreme")>> >>)],
    [age |-> JNum(50), sex |-> JStr("male"), severity_map |-> JNull] }

\* answers maps: every kind of boost, select answers with and without a boost,
\* self_harm answered yes and no, unknown question ids and undeclared options,
\* no answers, not a map
MsAnswers ==
  { JDict(<< <<"family_history", JBool(TRUE)>>, <<"family_diabetes", JStr("yes")>>,
             <<"daily_impact", JNum(1)>>, <<"duration", JStr("More than 3 months")>>,
             <<"self_harm", JStr("Yes")>> >>),
    JDict(<< <<"pain_radiation", JStr("TRUE")>>, <<"exertion_trigger", JStr("no")>>,
             <<"urine_change", JStr("Foamy/bubbly")>>, <<"wound_healing", JBool(TRUE)>>,
             <<"swelling_location", JStr("Hands")>>, <<"daily_impact", JNull>>,
             <<"self_harm", JStr("no")>> >>),
    JDict(<< <<"family_history_2", JStr("yes")>>, <<"urine_change", JStr("Purple")>>,
             <<"duration", JStr("Ankles/feet")>>, <<"swelling_location", JNum(2)>> >>),
    JDict(<<>>),
    JList(<<JStr("yes")>>) }

NoResults == [error |-> "", results |-> <<>>, expansion_log |-> <<>>]

NoAdvice == [level |-> "", text |-> "", self_care |-> <<>>]

InitMatch ==
  /\ kb = KB0
  /\ th = Off
  /\ call \in {[ pc |-> "call", symptoms |-> l, age |-> c.age, sex |-> c.sex,
                 severity_map |-> c.severity_map, matched |-> NoResults, alerts |-> <<>>,
                 extra |-> "", extended |-> NoResults, answers |-> JNull,
                 boosted |-> [results |-> <<>>, crisis_triggered |-> FALSE],
                 advised_alerts |-> <<>>, advice |-> NoAdvice,
                 max_diseases |-> DefaultMaxDiseases, followup_questions |-> <<>> ]
                : l \in (MsLists \ {<<>>}) \cup MsLongLists, c \in MsContexts}

\* matched := match_symptoms(symptoms, age, sex, severity_map);
\* alerts := check_red_flags([expand_synonyms(s) for s in symptoms])
MsMatch ==
  /\ call.pc = "call"
  /\ call' = [call EXCEPT
                !.pc = "matched",
                !.matched = match_symptoms(call.symptoms, call.age, call.sex, call.severity_map),
                !.alerts = check_red_flags(canonical_for_flags(call.symptoms))]
  /\ UNCHANGED <<kb, th>>

\* extended := match_symptoms(symptoms + [s], age, sex, severity_map)
MsExtend ==
  /\ call.pc = "matched"
  /\ \E s \in MsExtras :
       call' = [call EXCEPT
                  !.pc = "extended", !.extra = s,
                  !.extended = match_symptoms(Append(call.symptoms, s), call.age, call.sex,
                                              call.severity_map)]
  /\ UNCHANGED <<kb, th>>

\* boosted := apply_followup_boosts(matched, answers)
MsBoost ==
  /\ call.pc = "matched"
  /\ \E a \in MsAnswers :
       call' = [call EXCEPT
                  !.pc = "boosted", !.answers = a,
                  !.boosted = apply_followup_boosts(call.matched.results, a)]
  /\ UNCHANGED <<kb, th>>

\* advice := generate_advice(matched, symptoms, alerts), with the alerts of
\* check_red_flags, with none, and with the crisis alert of the follow-up handler
MsAdvise ==
  /\ call.pc = "matched"
  /\ \E alerts \in {call.alerts, <<>>, <<CrisisAlert>>} :
       call' = [call EXCEPT
                  !.pc = "advised", !.advised_alerts = alerts,
                  !.advice = generate_advice(call.matched.results, call.symptoms, alerts)]
  /\ UNCHANGED <<kb, th>>

\* followup_questions := collect_followup_questions(matched, max_diseases)
MsCollect ==
  /\ call.pc = "matched"
  /\ \E n \in 1..DefaultMaxDiseases :
       call' = [call EXCEPT
                  !.pc = "collected", !.max_diseases = n,
                  !.followup_questions = collect_followup_questions(call.matched.results, n)]
  /\ UNCHANGED <<kb, th>>

NextMatch == MsMatch \/ MsExtend \/ MsBoost \/ MsAdvise \/ MsCollect

SpecMatch == InitMatch /\ [][NextMatch]_vars

C1_in_range(results) ==
  \A i \in 1..Len(results) :
    RGe(results[i].confidence, Zero) /\ RLe(results[i].confidence, <<99, 100>>)

\* C1: every result of match_symptoms, and every result after
\* apply_followup_boosts with any answers map, has 0 <= confidence <= 0.99.
C1_ConfidenceBound ==
  /\ call.pc \in {"matched", "extended", "boosted"} => C1_in_range(call.matched.results)
  /\ call.pc = "extended" => C1_in_range(call.extended.results)
  /\ call.pc = "boosted" => C1_in_range(call.boosted.results)

\* a boost that multiplies a confidence past the cap: a result below 0.99
\* before the boosts is at 0.99 after them
C1_Witness ==
  /\ call.pc = "boosted"
  /\ \E i \in 1..Len(call.matched.results), j \in 1..Len(call.boosted.results) :
        /\ call.matched.results[i].id = call.boosted.results[j].id
        /\ RGt(call.matched.results[i].confidence, <<9, 10>>)
        /\ RLt(call.matched.results[i].confidence, <<99, 100>>)
        /\ call.boosted.results[j].confidence = <<99, 100>>

\* C3: for hopelessness and worthlessness alone, depression is among the
\* results of match_symptoms with a score above zero, and check_red_flags
\* returns no 'Suicidal Crisis Indicators' alert.
C3_NoCrisisAlert ==
  (call.pc = "matched" /\ Len(call.symptoms) = 2
     /\ set_of(call.symptoms) = {"hopelessness", "worthlessness"}) =>
    /\ \E i \in 1..Len(call.matched.results) :
          /\ call.matched.results[i].id = "depression"
          /\ RGt(call.matched.results[i].score, Zero)
    /\ \A i \in 1..Len(call.alerts) : call.alerts[i].name # "Suicidal Crisis Indicators"

\* the two symptoms matched: depression ranked first, no alert at all
C3_Witness ==
  /\ call.pc = "matched"
  /\ call.symptoms = <<"hopelessness", "worthlessness">>
  /\ call.matched.results[1].id = "depression"
  /\ call.alerts = <<>>

\* C7: every condition present in match_symptoms(L) is present in
\* match_symptoms(L + [s]) for the same age, sex and severity_map, and its
\* raw_score there is not lower.
C7_Monotone ==
  call.pc = "extended" =>
    \A i \in 1..Len(call.matched.results) :
      \E j \in 1..Len(call.extended.results) :
        /\ call.extended.results[j].id = call.matched.results[i].id
        /\ RGe(call.extended.results[j].raw_score, call.matched.results[i].raw_score)

\* the extra symptom raises the raw_score of one condition, leaves the
\* raw_score of another as it was, and brings in a condition that was absent
C7_Witness ==
  /\ call.pc = "extended"
  /\ \E i \in 1..Len(call.matched.results), j \in 1..Len(call.extended.results) :
        /\ call.extended.results[j].id = call.matched.results[i].id
        /\ RGt(call.extended.results[j].raw_score, call.matched.results[i].raw_score)
  /\ \E i \in 1..Len(call.matched.results), j \in 1..Len(call.extended.results) :
        /\ call.extended.results[j].id = call.matched.results[i].id
        /\ call.extended.results[j].raw_score = call.matched.results[i].raw_score
  /\ Len(call.extended.results) > Len(call.matched.results)

\* the input has a log entry: its canonical form differs from its lower-cased
\* trimmed text
C10_changed(s) == expand_synonyms(s) # str_strip(str_lower(s))

\* C10: the expansion_log of match_symptoms holds, in input order, one entry
\* {original, resolved_to} for exactly the input symptoms whose canonical form
\* differs from their lower-cased trimmed text; 'cant breathe' is logged as
\* resolved to 'shortness of breath'.
C10_ExpansionLog ==
  call.pc = "matched" =>
    LET log == call.matched.expansion_log
        changed == SelectSeq(call.symptoms, C10_changed)
    IN  /\ Len(log) = Len(changed)
        /\ \A i \in 1..Len(log) :
              /\ log[i].original = changed[i]
              /\ log[i].resolved_to = expand_synonyms(changed[i])
        /\ \A i \in 1..Len(call.symptoms) :
              call.symptoms[i] = "cant breathe" =>
                \E k \in 1..Len(log) :
                  log[k] = [original |-> "cant breathe", resolved_to |-> "shortness of breath"]

\* 'cant breathe' after a symptom that is logged nowhere
C10_Witness ==
  /\ call.pc = "matched"
  /\ Len(call.symptoms) = 2 /\ call.symptoms[2] = "cant breathe"
  /\ ~C10_changed(call.symptoms[1])
  /\ call.matched.expansion_log =
       <<[original |-> "cant breathe", resolved_to |-> "shortness of breath"]>>

\* the position of a condition in the declaration order of the knowledge base
C11_declared(id) ==
  CHOOSE d \in 1..Len(SYMPTOM_DATABASE) : SYMPTOM_DATABASE[d].id = id

C11_sorted(results) ==
  \A i, j \in 1..Len(results) :
    i < j => \/ RGt(results[i].score, results[j].score)
             \/ /\ results[i].score = results[j].score
                /\ C11_declared(results[i].id) < C11_declared(results[j].id)

\* C11: the result list of match_symptoms is sorted by score in descending
\* order, and results with equal score keep the declaration order of the
\* conditions (heart, diabetes, kidney, depression).
C11_SortedStable ==
  /\ call.pc \in {"matched", "extended", "boosted"} => C11_sorted(call.matched.results)
  /\ call.pc = "extended" => C11_sorted(call.extended.results)

\* two conditions tie on the score and a condition declared before both of
\* them comes after them with a lower score
C11_Witness ==
  /\ call.pc = "matched"
  /\ \E i, j \in 1..Len(call.matched.results) :
        /\ i < j
        /\ call.matched.results[i].score = call.matched.results[j].score
  /\ \E i, j \in 1..Len(call.matched.results) :
        /\ i < j
        /\ C11_declared(call.matched.results[i].id) > C11_declared(call.matched.results[j].id)

\* the adjusted score of a condition as match_symptoms computes it before it
\* rounds it: the contributions of the user symptoms times the demographic factor
C12_adjusted(id, symptoms, age, sex, severity_map) ==
  LET info == SYMPTOM_DATABASE[C11_declared(id)]
      score_of(m) == IF m.kind = "matched" THEN m.best_score ELSE Zero
      RECURSIVE total(_)
      total(i) ==
        IF i > Len(symptoms) THEN Zero
        ELSE RAdd(score_of(symptom_match(info, symptoms[i], expand_synonyms(symptoms[i]),
                                         severity_map)),
                  total(i + 1))
  IN  RMul(total(1), demo_factor(info, age, sex))

C12_tiered(r, adjusted, threshold) ==
  LET high == RGe(adjusted, RMul(threshold, <<3, 2>>))
      moderate == RGe(adjusted, threshold) /\ ~high
      low == RLt(adjusted, threshold)
  IN  /\ (r.urgency = "high") <=> high
      /\ (r.urgency = "moderate") <=> moderate
      /\ (r.urgency = "low") <=> low
      /\ (r.triage = "urgent") <=> (high /\ RGt(r.confidence, <<1, 2>>))
      /\ (r.triage = "prompt") <=> (high /\ RLe(r.confidence, <<1, 2>>))
      /\ (r.triage = "standard") <=> moderate
      /\ (r.triage = "informational") <=> low

C12_all_tiered(results, symptoms) ==
  \A i \in 1..Len(results) :
    C12_tiered(results[i],
               C12_adjusted(results[i].id, symptoms, call.age, call.sex, call.severity_map),
               SYMPTOM_DATABASE[C11_declared(results[i].id)].urgency_threshold)

\* C12: in every result of match_symptoms urgency is high exactly when the
\* adjusted score is at least 1.5 times the threshold of the condition, moderate
\* exactly when it is at least the threshold and below 1.5 times it, low
\* otherwise; triage is urgent exactly for high urgency with confidence above
\* 0.5, prompt for high urgency with confidence at most 0.5, standard for
\* moderate and informational for low urgency.
C12_Tiering ==
  /\ call.pc = "matched" => C12_all_tiered(call.matched.results, call.symptoms)
  /\ call.pc = "extended" =>
       C12_all_tiered(call.extended.results, Append(call.symptoms, call.extra))

\* a result exactly on both boundaries: adjusted score 7.5 with threshold 5 is
\* high, confidence 0.5 makes it prompt
C12_Witness ==
  /\ call.pc = "matched"
  /\ \E i \in 1..Len(call.matched.results) :
        /\ call.matched.results[i].urgency = "high"
        /\ call.matched.results[i].triage = "prompt"
        /\ call.matched.results[i].confidence = <<1, 2>>
        /\ call.matched.results[i].score = <<15, 2>>

\* the answer to question q in the answers map, JNull when there is none
C13_answer(answers, q) ==
  IF answers.t = "dict" /\ dict_has(answers.v, q.id) THEN dict_get(answers.v, q.id) ELSE JNull

\* question q is answered with a truthy yes/no answer or a declared option
C13_applies(q, answer) ==
  /\ answer.t # "null"
  /\ \/ q.type = "yesno" /\ str_lower(py_str(answer)) \in {"yes", "true", "1"}
     \/ q.type = "select" /\ \E k \in 1..Len(q.options) : q.options[k] = py_str(answer)

\* the boosts of question q under the answer: (key, value) pairs
C13_boosts(q, answer) ==
  IF ~C13_applies(q, answer) THEN <<>>
  ELSE IF q.type = "yesno" THEN q.yes_boost
  ELSE IF dict_has(q.boosts, py_str(answer)) THEN dict_get(q.boosts, py_str(answer))
  ELSE <<>>

RECURSIVE C13_applied(_, _, _)
\* the boosts applied to a condition, in the order of its questions
C13_applied(qs, answers, i) ==
  IF i > Len(qs) THEN <<>>
  ELSE C13_boosts(qs[i], C13_answer(answers, qs[i])) \o C13_applied(qs, answers, i + 1)

RECURSIVE C13_after(_, _, _)
\* (score, confidence) after the boosts from position i on; the score is kept
\* to one decimal and the confidence to two, as the fields of a result are
C13_after(sc, boosts, i) ==
  IF i > Len(boosts) THEN sc
  ELSE IF boosts[i][1] = "_global"
  THEN C13_after([score |-> round1(RMul(sc.score, boosts[i][2])),
                  confidence |-> RMin(round2(RMul(sc.confidence, boosts[i][2])), <<99, 100>>)],
                 boosts, i + 1)
  ELSE IF boosts[i][1] = "_crisis" THEN C13_after(sc, boosts, i + 1)
  ELSE C13_after([score |-> round1(RAdd(sc.score, boosts[i][2])), confidence |-> sc.confidence],
                 boosts, i + 1)

C13_questions(id) ==
  IF dict_has(FOLLOW_UP_QUESTIONS, id) THEN dict_get(FOLLOW_UP_QUESTIONS, id) ELSE <<>>

\* C13: apply_followup_boosts applies boosts only for the questions of a
\* condition present in the results whose answer is present and is a truthy
\* yes/no answer ('yes', 'true', '1' in any letter case) or a declared option of
\* a select question; an applied '_global' boost multiplies the score and the
\* confidence of the result (confidence capped at 0.99), '_crisis' changes
\* neither, any other key adds its value to the score and leaves the
\* confidence unchanged.
C13_Boosts ==
  call.pc = "boosted" =>
    /\ Len(call.boosted.results) = Len(call.matched.results)
    /\ \A i \in 1..Len(call.matched.results) :
         \E j \in 1..Len(call.boosted.results) :
           /\ call.boosted.results[j].id = call.matched.results[i].id
           /\ [score |-> call.boosted.results[j].score,
               confidence |-> call.boosted.results[j].confidence]
                = C13_after([score |-> call.matched.results[i].score,
                             confidence |-> call.matched.results[i].confidence],
                            C13_applied(C13_questions(call.matched.results[i].id),
                                        call.answers, 1), 1)

\* the answer to pain_radiation adds 2 and 1.5 to the score of heart disease
\* and leaves its confidence as it was
C13_Witness ==
  /\ call.pc = "boosted"
  /\ call.answers.t = "dict"
  /\ \E i \in 1..Len(call.matched.results), j \in 1..Len(call.boosted.results) :
        /\ call.matched.results[i].id = "heart" /\ call.boosted.results[j].id = "heart"
        /\ dict_has(call.answers.v, "pain_radiation")
        /\ call.boosted.results[j].score = RAdd(call.matched.results[i].score, <<7, 2>>)
        /\ call.boosted.results[j].confidence = call.matched.results[i].confidence

C14_threshold(id) == SYMPTOM_DATABASE[C11_declared(id)].urgency_threshold

C14_retiered(r, threshold) ==
  IF RGe(r.score, RMul(threshold, <<3, 2>>)) THEN r.urgency = "high" /\ r.triage = "urgent"
  ELSE IF RGe(r.score, threshold) THEN r.urgency = "moderate" /\ r.triage = "standard"
  ELSE r.urgency = "low" /\ r.triage = "informational"

\* C14: after apply_followup_boosts, whatever the answers, the list is sorted
\* by score descending and every result has urgency high and triage urgent if
\* its score is at least 1.5 times the threshold of its condition, moderate and
\* standard if it is at least the threshold, low and informational otherwise;
\* no result has triage 'prompt'.
C14_Retiered ==
  call.pc = "boosted" =>
    LET results == call.boosted.results
    IN  /\ \A i, j \in 1..Len(results) : i < j => RGe(results[i].score, results[j].score)
        /\ \A i \in 1..Len(results) :
             /\ C14_retiered(results[i], C14_threshold(results[i].id))
             /\ results[i].triage # "prompt"

\* a result that match_symptoms tiered prompt, with confidence 0.5, is urgent
\* after the boosts although its confidence is still 0.5
C14_Witness ==
  /\ call.pc = "boosted"
  /\ \E i \in 1..Len(call.matched.results), j \in 1..Len(call.boosted.results) :
        /\ call.matched.results[i].id = call.boosted.results[j].id
        /\ call.matched.results[i].triage = "prompt"
        /\ call.boosted.results[j].triage = "urgent"
        /\ call.boosted.results[j].confidence = <<1, 2>>

\* the questions of the bank with the id
C15_questions(id) ==
  UNION {{FOLLOW_UP_QUESTIONS[d][2][k] : k \in {k \in 1..Len(FOLLOW_UP_QUESTIONS[d][2]) :
                                                 FOLLOW_UP_QUESTIONS[d][2][k].id = id}}
         : d \in 1..Len(FOLLOW_UP_QUESTIONS)}

\* the answers are not a mapping, or every entry names an unknown question or
\* gives a select question an option that is not declared for it
C15_malformed(answers) ==
  \/ answers.t # "dict"
  \/ \A e \in 1..Len(answers.v) :
       \A q \in C15_questions(answers.v[e][1]) :
         /\ q.type = "select"
         /\ \A k \in 1..Len(q.options) : q.options[k] # py_str(answers.v[e][2])

\* C15: when the answers map holds only unknown question ids and options not
\* declared for their select question, or is not a mapping, apply_followup_boosts
\* returns without an error, with the score and the confidence of every result
\* unchanged and crisis_triggered false.
C15_MalformedAnswers ==
  (call.pc = "boosted" /\ C15_malformed(call.answers)) =>
    /\ ~call.boosted.crisis_triggered
    /\ Len(call.boosted.results) = Len(call.matched.results)
    /\ \A i \in 1..Len(call.matched.results) :
         \E j \in 1..Len(call.boosted.results) :
           /\ call.boosted.results[j].id = call.matched.results[i].id
           /\ call.boosted.results[j].score = call.matched.results[i].score
           /\ call.boosted.results[j].confidence = call.matched.results[i].confidence

\* answers with an unknown id and undeclared options for the select questions
\* of kidney disease and depression, both among the results
C15_Witness ==
  /\ call.pc = "boosted"
  /\ call.answers.t = "dict" /\ Len(call.answers.v) > 0
  /\ C15_malformed(call.answers)
  /\ \E i, j \in 1..Len(call.boosted.results) :
        call.boosted.results[i].id = "kidney" /\ call.boosted.results[j].id = "depression"

\* C16: generate_advice picks its level by the first applicable rule: emergency
\* with an empty self-care list when emergency_alerts is not empty, whatever
\* the results; otherwise informational when results is empty; otherwise
\* urgent, standard or informational as the urgency of the first result is
\* high, moderate or low; every advice that is not emergency has exactly 3
\* self-care entries.
C16_AdviceLevel ==
  call.pc = "advised" =>
    LET results == call.matched.results
        level == IF Len(call.advised_alerts) > 0 THEN "emergency"
                 ELSE IF Len(results) = 0 THEN "informational"
                 ELSE IF results[1].urgency = "high" THEN "urgent"
                 ELSE IF results[1].urgency = "moderate" THEN "standard"
                 ELSE "informational"
    IN  /\ call.advice.level = level
        /\ level = "emergency" => call.advice.self_care = <<>>
        /\ level # "emergency" => Len(call.advice.self_care) = 3

\* the alerts decide although the first result is of high urgency
C16_Witness ==
  /\ call.pc = "advised"
  /\ Len(call.advised_alerts) > 0
  /\ Len(call.matched.results) > 0
  /\ call.matched.results[1].urgency = "high"
  /\ call.advice.level = "emergency"
  /\ call.advice.self_care = <<>>

C17_flagged(r) == r.has_followup_questions

\* C17: collect_followup_questions(results, max_diseases) emits, in result
\* order, one entry for each of the first max_diseases results among those with
\* has_followup_questions = true; when at least max_diseases results carry the
\* flag, exactly max_diseases entries are emitted.
C17_FollowupSelection ==
  call.pc = "collected" =>
    LET flagged == SelectSeq(call.matched.results, C17_flagged)
        n == IF Len(flagged) < call.max_diseases THEN Len(flagged) ELSE call.max_diseases
    IN  /\ Len(call.followup_questions) = n
        /\ \A i \in 1..n :
             /\ call.followup_questions[i].disease_id = flagged[i].id
             /\ call.followup_questions[i].disease_name = flagged[i].name
             /\ call.followup_questions[i].questions = C13_questions(flagged[i].id)

\* C17 as the code has it: collect_followup_questions emits, in result order,
\* one entry for each result among the first max_diseases results that has
\* has_followup_questions = true; a flagged result after the first
\* max_diseases results gets no entry, however few entries were emitted.
C17_TopThenFlagged ==
  call.pc = "collected" =>
    LET n == IF Len(call.matched.results) < call.max_diseases
             THEN Len(call.matched.results) ELSE call.max_diseases
        flagged == SelectSeq(SubSeq(call.matched.results, 1, n), C17_flagged)
    IN  /\ Len(call.followup_questions) = Len(flagged)
        /\ \A i \in 1..Len(flagged) :
             /\ call.followup_questions[i].disease_id = flagged[i].id
             /\ call.followup_questions[i].disease_name = flagged[i].name
             /\ call.followup_questions[i].questions = C13_questions(flagged[i].id)

\* three of four results carry the flag, the first does not, and with
\* max_diseases = 3 two entries are emitted
C17_Witness ==
  /\ call.pc = "collected"
  /\ call.max_diseases = 3
  /\ Len(call.matched.results) = 4
  /\ ~call.matched.results[1].has_followup_questions
  /\ \A i \in 2..4 : call.matched.results[i].has_followup_questions
  /\ Len(call.followup_questions) = 2

RECURSIVE C18_largest_sum(_, _)
\* the sum of the n largest of the weights: the largest, then the n - 1
\* largest of the others
C18_largest_sum(weights, n) ==
  IF n = 0 \/ weights = <<>> THEN Zero
  ELSE LET m == CHOOSE i \in 1..Len(weights) :
                  \A j \in 1..Len(weights) : RGe(weights[i], weights[j])
       IN  RAdd(weights[m],
                C18_largest_sum(SubSeq(weights, 1, m - 1) \o SubSeq(weights, m + 1, Len(weights)),
                                n - 1))

C18_weights(id) ==
  LET symptoms == SYMPTOM_DATABASE[C11_declared(id)].symptoms
  IN  list_of([i \in 1..Len(symptoms) |-> symptoms[i][2]])

C18_confidence(adjusted, m) ==
  round2(RMin(RDiv(adjusted, RMax(m, One)), <<99, 100>>))

C18_all_normalised(results, symptoms) ==
  \A i \in 1..Len(results) :
    results[i].confidence =
      C18_confidence(C12_adjusted(results[i].id, symptoms, call.age, call.sex,
                                  call.severity_map),
                     C18_largest_sum(C18_weights(results[i].id), Len(symptoms)))

\* C18: the confidence of every result of match_symptoms is
\* min(adjusted_score / max(M, 1), 0.99) rounded to 2 decimals, M being the sum
\* of the N largest weights of the condition's table and N the number of
\* symptoms the user supplied; so one more symptom that matches nothing in a
\* condition never raises the confidence of that condition.
C18_Confidence ==
  /\ call.pc = "matched" => C18_all_normalised(call.matched.results, call.symptoms)
  /\ call.pc = "extended" =>
       /\ C18_all_normalised(call.extended.results, Append(call.symptoms, call.extra))
       /\ \A i \in 1..Len(call.matched.results), j \in 1..Len(call.extended.results) :
            ( /\ call.extended.results[j].id = call.matched.results[i].id
              /\ call.extended.results[j].symptom_count = call.matched.results[i].symptom_count )
            => RLe(call.extended.results[j].confidence, call.matched.results[i].confidence)

\* the extra symptom matches nothing in a condition that matched one symptom
\* of two, and the confidence of the condition drops
C18_Witness ==
  /\ call.pc = "extended"
  /\ Len(call.symptoms) = 2
  /\ \E i \in 1..Len(call.matched.results), j \in 1..Len(call.extended.results) :
        /\ call.extended.results[j].id = call.matched.results[i].id
        /\ call.matched.results[i].symptom_count = 1
        /\ call.extended.results[j].symptom_count = 1
        /\ call.extended.results[j].raw_score = call.matched.results[i].raw_score
        /\ RLt(call.extended.results[j].confidence, call.matched.results[i].confidence)

\* the raw total of a condition: the best score of every user symptom, times
\* its severity multiplier
C21_total(id, symptoms, severity_map) ==
  LET info == SYMPTOM_DATABASE[C11_declared(id)]
      score_of(m) == IF m.kind = "matched" THEN m.best_score ELSE Zero
      RECURSIVE total(_)
      total(i) ==
        IF i > Len(symptoms) THEN Zero
        ELSE RAdd(score_of(symptom_match(info, symptoms[i], expand_synonyms(symptoms[i]),
                                         severity_map)),
                  total(i + 1))
  IN  total(1)

\* the factors the claim includes, as a sequence
C21_factors(id, age, sex) ==
  LET info == SYMPTOM_DATABASE[C11_declared(id)]
      of_sex == {i \in 1..Len(info.sex_modifier) :
                   sex.t = "str" /\ info.sex_modifier[i][1] = str_lower(sex.v)}
  IN  (IF age.t = "num" /\ age.v >= info.age_modifier.threshold
       THEN <<info.age_modifier.factor>> ELSE <<>>)
      \o (IF \E i \in of_sex : info.sex_modifier[i][2] # One
          THEN <<info.sex_modifier[CHOOSE i \in of_sex : TRUE][2]>> ELSE <<>>)

C21_product(factors) ==
  IF Len(factors) = 0 THEN One
  ELSE IF Len(factors) = 1 THEN factors[1]
  ELSE RMul(factors[1], factors[2])

C21_all_adjusted(results, symptoms) ==
  \A i \in 1..Len(results) :
    LET factors == C21_factors(results[i].id, call.age, call.sex)
        total == C21_total(results[i].id, symptoms, call.severity_map)
    IN  /\ results[i].raw_score = round1(total)
        /\ results[i].score = round1(RMul(total, C21_product(factors)))
        /\ Len(results[i].demographic_notes) = Len(factors)
        /\ (call.age.t = "null" /\ call.sex.t = "null")
             => /\ results[i].score = results[i].raw_score
                /\ results[i].demographic_notes = <<>>

\* C21: the adjusted score of every result of match_symptoms is the raw total
\* times demo_factor, the product of the age factor (taken exactly when an age
\* is given and is at least the age threshold) and the sex factor (taken
\* exactly when a sex is given and its modifier is not 1.0); demographic_notes
\* has one note per factor taken; with neither age nor sex the score is the
\* raw score and there are no notes.
C21_DemographicFactor ==
  /\ call.pc = "matched" => C21_all_adjusted(call.matched.results, call.symptoms)
  /\ call.pc = "extended" =>
       C21_all_adjusted(call.extended.results, Append(call.symptoms, call.extra))

\* heart disease for a man of 50: both factors, two notes, 1.2 x 1.15 = 1.38
C21_Witness ==
  /\ call.pc = "matched"
  /\ call.age = JNum(50)
  /\ \E i \in 1..Len(call.matched.results) :
       /\ call.matched.results[i].id = "heart"
       /\ Len(call.matched.results[i].demographic_notes) = 2
       /\ call.matched.results[i].raw_score = <<3, 1>>
       /\ call.matched.results[i].score = <<41, 10>>

\* the condition owns a yes/no question with '_crisis' in its yes_boost whose
\* answer is present and truthy ('yes', 'true', '1' in any letter case)
C25_owns_crisis(id, answers) ==
  \E k \in 1..Len(C13_questions(id)) :
    /\ C13_questions(id)[k].type = "yesno"
    /\ \E b \in 1..Len(C13_questions(id)[k].yes_boost) :
         C13_questions(id)[k].yes_boost[b][1] = "_crisis"
    /\ C13_applies(C13_questions(id)[k], C13_answer(answers, C13_questions(id)[k]))

\* C25: apply_followup_boosts returns crisis_triggered = true exactly when a
\* condition present in the results owns a yes/no question whose yes_boost
\* has '_crisis' and whose answer is truthy; with the shipped questions,
\* exactly when depression is among the results and self_harm is answered
\* truthy: without depression a truthy self_harm answer has no effect.
C25_CrisisTrigger ==
  call.pc = "boosted" =>
    /\ call.boosted.crisis_triggered
         <=> \E i \in 1..Len(call.matched.results) :
               C25_owns_crisis(call.matched.results[i].id, call.answers)
    /\ call.boosted.crisis_triggered
         <=> /\ \E i \in 1..Len(call.matched.results) :
                  call.matched.results[i].id = "depression"
             /\ call.answers.t = "dict"
             /\ dict_has(call.answers.v, "self_harm")
             /\ str_lower(py_str(dict_get(call.answers.v, "self_harm")))
                  \in {"yes", "true", "1"}

\* self_harm is answered "Yes" and depression is not among the results, which
\* are not empty: no crisis
C25_Witness ==
  /\ call.pc = "boosted"
  /\ call.answers.t = "dict"
  /\ dict_has(call.answers.v, "self_harm")
  /\ dict_get(call.answers.v, "self_harm") = JStr("Yes")
  /\ Len(call.matched.results) > 0
  /\ \A i \in 1..Len(call.matched.results) : call.matched.results[i].id # "depression"
  /\ ~call.boosted.crisis_triggered

C29_distinct(matched) ==
  \A j, k \in 1..Len(matched) : j # k => matched[j].matched_to # matched[k].matched_to

\* C29: in the result of a condition every known symptom counts at most once:
\* matched_symptoms never has two entries with the same matched_to, even when
\* the input repeats a symptom or has several texts for one symptom.
C29_NoDoubleCount ==
  /\ call.pc = "matched" =>
       \A i \in 1..Len(call.matched.results) :
         C29_distinct(call.matched.results[i].matched_symptoms)
  /\ call.pc = "extended" =>
       \A i \in 1..Len(call.extended.results) :
         C29_distinct(call.extended.results[i].matched_symptoms)

\* C30: apply_followup_boosts with an empty answers map leaves the order of the
\* results of match_symptoms and the urgency of every result unchanged.
C30_EmptyAnswersKeepUrgency ==
  (call.pc = "boosted" /\ call.answers = JDict(<<>>)) =>
    /\ Len(call.boosted.results) = Len(call.matched.results)
    /\ \A i \in 1..Len(call.matched.results) :
         /\ call.boosted.results[i].id = call.matched.results[i].id
         /\ call.boosted.results[i].urgency = call.matched.results[i].urgency
(***************************************************************************)
(* validate_symptoms called on a raw "symptoms" value, then either handler *)
(* called on a request that carries that value.  The raw values are        *)
(* non-lists, the empty list, short lists over strings with and without    *)
(* padding, blanks and non-strings, and long lists around the limit of 20  *)
(* with blanks and non-strings mixed in.                                   *)
(***************************************************************************)
VsEntries == <<JStr("ab"), JStr(" ab\t"), JStr("  "), JStr(""), JNum(3)>>

VsMaxLen == 3

VsNonLists == {JNull, JStr("ab"), JNum(0), JNum(7), JBool(TRUE), JDict(<<>>)}

\* n strings, with a blank and a number after every period-th string
RECURSIVE padded_list(_, _)
padded_list(n, period) ==
  IF n = 0 THEN <<>>
  ELSE LET junk == IF period > 0 /\ n % period = 0 THEN <<JStr(" "), JNum(n)>> ELSE <<>>
       IN  padded_list(n - 1, period) \o <<JStr(" ab ")>> \o junk

VsLongLists ==
  {padded_list(n, period) : n \in (MaxSymptomCount - 1)..(MaxSymptomCount + 2),
                            period \in {0, 7}}

VsInputs ==
  VsNonLists \cup {JList(l) : l \in lists_over(VsEntries, VsMaxLen) \cup VsLongLists}

NoValidation == [cleaned |-> <<>>, error |-> "unset"]

InitValidate ==
  /\ kb = KB0
  /\ th = Off
  /\ call \in {[ pc |-> "call", raw |-> raw, validated |-> NoValidation, route |-> "",
                 response |-> server_error ] : raw \in VsInputs}

\* validated := validate_symptoms(raw)
VsValidate ==
  /\ call.pc = "call"
  /\ call' = [call EXCEPT !.pc = "validated", !.validated = validate_symptoms(call.raw)]
  /\ UNCHANGED <<kb, th>>

\* POST /symptom-check with {"symptoms": raw}
VsCheck ==
  /\ call.pc = "validated"
  /\ call' = [call EXCEPT !.pc = "responded", !.route = "symptom-check",
                          !.response = check_symptoms(JDict(<< <<"symptoms", call.raw>> >>))]
  /\ UNCHANGED <<kb, th>>

\* POST /symptom-followup with {"symptoms": raw, "answers": {"family_history": "yes"}}
VsFollowup ==
  /\ call.pc = "validated"
  /\ call' = [call EXCEPT
                !.pc = "responded", !.route = "symptom-followup",
                !.response = symptom_followup(
                   JDict(<< <<"symptoms", call.raw>>,
                            <<"answers", JDict(<< <<"family_history", JStr("yes")>> >>)>> >>))]
  /\ UNCHANGED <<kb, th>>

NextValidate == VsValidate \/ VsCheck \/ VsFollowup

SpecValidate == InitValidate /\ [][NextValidate]_vars

\* the entries of a raw list that are strings with a character that is not
\* white space, in input order
RECURSIVE C4_survivors(_)
C4_survivors(entries) ==
  IF entries = <<>> THEN <<>>
  ELSE LET e == Head(entries)
           nonblank == e.t = "str" /\ \E i \in 1..Len(e.v) : ~is_space(SubSeq(e.v, i, i))
       IN  (IF nonblank THEN <<e.v>> ELSE <<>>) \o C4_survivors(Tail(entries))

\* s is text with white space removed from both ends, and from nowhere else
C4_trimmed(s, text) ==
  /\ s # ""
  /\ ~is_space(SubSeq(s, 1, 1)) /\ ~is_space(SubSeq(s, Len(s), Len(s)))
  /\ \E i \in 1..Len(text) :
       /\ SubSeq(text, i, i + Len(s) - 1) = s
       /\ \A j \in (1..(i - 1)) \cup ((i + Len(s))..Len(text)) : is_space(SubSeq(text, j, j))

\* C4: validate_symptoms returns an error exactly when the input is not a list,
\* no entry survives trimming, or more than 20 entries survive; otherwise it
\* returns 1 to 20 trimmed non-blank strings, the surviving entries in input
\* order.  When it returns an error, both handlers answer 400 with no analysis.
C4_Validation ==
  call.pc \in {"validated", "responded"} =>
    LET is_list == call.raw.t = "list"
        survivors == IF is_list THEN C4_survivors(call.raw.v) ELSE <<>>
        cleaned == call.validated.cleaned
        failed == call.validated.error # ""
    IN  /\ failed <=> (~is_list \/ Len(survivors) = 0 \/ Len(survivors) > 20)
        /\ ~failed =>
             /\ Len(cleaned) \in 1..20
             /\ Len(cleaned) = Len(survivors)
             /\ \A i \in 1..Len(cleaned) : C4_trimmed(cleaned[i], survivors[i])
        /\ (failed /\ call.pc = "responded") =>
             /\ call.response.status = 400
             /\ call.response.analysis = NoAnalysis

\* a list of 22 entries of which exactly 20 survive is accepted, in order, and
\* the handler answers with an analysis of 20 symptoms
C4_Witness ==
  /\ call.pc = "responded"
  /\ call.raw.t = "list"
  /\ Len(call.raw.v) > 20
  /\ call.validated.error = ""
  /\ Len(call.validated.cleaned) = 20
  /\ call.response.status = 200

(***************************************************************************)
(* The application serving requests on worker threads.  Each thread runs   *)
(* one handler invocation at a time; the local variables of an invocation  *)
(* are the fields of th[t], and the threads interleave between the         *)
(* statements of the handlers.  The only data the threads share is kb.     *)
(***************************************************************************)
Threads == {"t1", "t2"}

MaxServed == 1

json_strings(texts) == JList(list_of([i \in 1..Len(texts) |-> JStr(texts[i])]))

ChestPain == <<"symptoms", json_strings(<<"Chest Pain", "nausea">>)>>

Requests ==
  { [route |-> "symptom-check", data |-> JDict(<<ChestPain>>)],
    [route |-> "symptom-check",
     data |-> JDict(<< ChestPain, <<"age", JNum(70)>>, <<"sex", JStr("Male")>>,
                       <<"severity_map", JDict(<< <<"Chest Pain", JStr("severe")>> >>)>> >>)],
    [route |-> "symptom-check",
     data |-> JDict(<< ChestPain, <<"severity_map", json_strings(<<"severe">>)>> >>)],
    [route |-> "symptom-check", data |-> JDict(<< ChestPain, <<"age", JInf>> >>)],
    [route |-> "symptom-check", data |-> JDict(<< <<"symptoms", JList(<<JNum(1)>>)>> >>)],
    [route |-> "symptom-followup",
     data |-> JDict(<< <<"symptoms", json_strings(<<"hopelessness">>)>>,
                       <<"answers", JDict(<< <<"self_harm", JStr("yes")>>,
                                             <<"duration", JStr("More than 2 months")>> >>)>> >>)],
    [route |-> "symptom-followup",
     data |-> JDict(<< ChestPain, <<"age", JStr("45")>>,
                       <<"answers", JDict(<< <<"family_history", JBool(TRUE)>>,
                                             <<"self_harm", JStr("yes")>> >>)>> >>)],
    [route |-> "symptom-followup", data |-> JNull] }

NoDemographics == [error |-> "", age |-> JNull, sex |-> JNull]

Idle ==
  [ pc |-> "idle", served |-> 0, route |-> "", data |-> JNull, symptoms |-> <<>>,
    demo |-> NoDemographics, severity_map |-> JNull, answers |-> JNull,
    emergency_alerts |-> <<>>, results |-> <<>>, expansion_log |-> <<>>,
    crisis_triggered |-> FALSE, response |-> server_error ]

Init ==
  /\ kb = KB0
  /\ call = Off
  /\ th = [t \in Threads |-> Idle]

\* a local variable of the invocation running on any thread: the variable as
\* it would be if it were module-level
global(t, name) == th[CHOOSE u \in Threads : TRUE][name]

\* a local variable of the invocation running on thread t
local(t, name) == th[t][name]

\* the value of request.get_json() for a new request
Receive(t) ==
  /\ th[t].pc = "idle"
  /\ th[t].served < MaxServed
  /\ \E r \in Requests :
       th' = [th EXCEPT ![t] = [@ EXCEPT !.pc = "received", !.route = r.route,
                                         !.data = r.data]]
  /\ UNCHANGED <<kb, call>>

\* the handler up to the delegation to the service layer
validated_frame(own, data) ==
  LET respond(r) == [own EXCEPT !.pc = "responded", !.response = r]
      with_demographics(symptoms, demo) ==
        IF demo.error # "" THEN respond(server_error)
        ELSE [own EXCEPT !.pc = "validated", !.symptoms = symptoms, !.demo = demo,
                         !.severity_map = data_get(data, "severity_map", JDict(<<>>)),
                         !.answers = IF own.route = "symptom-followup"
                                     THEN data_get(data, "answers", JDict(<<>>)) ELSE @]
      with_symptoms(validated) ==
        IF validated.error # "" THEN respond(bad_request(validated.error))
        ELSE with_demographics(validated.cleaned,
                               validate_demographics(data_get(data, "age", JNull),
                                                     data_get(data, "sex", JNull)))
  IN  IF ~truthy(data) THEN respond(bad_request("Request body is required"))
      ELSE IF data.t # "dict" THEN respond(server_error)
      ELSE with_symptoms(validate_symptoms(data_get(data, "symptoms", JList(<<>>))))

Validate(t) ==
  /\ th[t].pc = "received"
  /\ th' = [th EXCEPT ![t] = validated_frame(@, local(t, "data"))]
  /\ UNCHANGED <<kb, call>>

\* emergency_alerts = check_red_flags([expand_synonyms(s) for s in symptoms])
CheckFlags(t) ==
  /\ th[t].pc = "validated" /\ th[t].route = "symptom-check"
  /\ th' = [th EXCEPT ![t] =
              [@ EXCEPT !.pc = "flagged",
                        !.emergency_alerts =
                           check_red_flags(canonical_for_flags(local(t, "symptoms")))]]
  /\ UNCHANGED <<kb, call>>

\* the frame after results, expansion_log = match_symptoms(...)
matched_frame(own, matched) ==
  IF matched.error # "" THEN [own EXCEPT !.pc = "responded", !.response = server_error]
  ELSE [own EXCEPT !.pc = "matched", !.results = matched.results,
                   !.expansion_log = matched.expansion_log]

CheckMatch(t) ==
  /\ th[t].pc = "flagged" /\ th[t].route = "symptom-check"
  /\ th' = [th EXCEPT ![t] =
              matched_frame(@, match_symptoms(local(t, "symptoms"), local(t, "demo").age,
                                              local(t, "demo").sex, local(t, "severity_map")))]
  /\ UNCHANGED <<kb, call>>

\* advice, body_system_groups, followup_questions and the response
CheckRespond(t) ==
  /\ th[t].pc = "matched" /\ th[t].route = "symptom-check"
  /\ th' = [th EXCEPT ![t] =
              [@ EXCEPT !.pc = "responded",
                        !.response =
                           ok_response(check_analysis(
                              local(t, "symptoms"), local(t, "demo"), local(t, "results"),
                              local(t, "expansion_log"), local(t, "emergency_alerts")))]]
  /\ UNCHANGED <<kb, call>>

\* results, _ = match_symptoms(...)
FollowupMatch(t) ==
  /\ th[t].pc = "validated" /\ th[t].route = "symptom-followup"
  /\ th' = [th EXCEPT ![t] =
              matched_frame(@, match_symptoms(local(t, "symptoms"), local(t, "demo").age,
                                              local(t, "demo").sex, local(t, "severity_map")))]
  /\ UNCHANGED <<kb, call>>

\* the frame after results, crisis_triggered = apply_followup_boosts(...)
boosted_frame(own, boosted) ==
  [own EXCEPT !.pc = "boosted", !.results = boosted.results,
              !.crisis_triggered = boosted.crisis_triggered]

FollowupBoost(t) ==
  /\ th[t].pc = "matched" /\ th[t].route = "symptom-followup"
  /\ th' = [th EXCEPT ![t] =
              boosted_frame(@, apply_followup_boosts(local(t, "results"),
                                                     local(t, "answers")))]
  /\ UNCHANGED <<kb, call>>

\* emergency detection and the crisis trigger
FollowupFlags(t) ==
  /\ th[t].pc = "boosted"
  /\ th' = [th EXCEPT ![t] =
              [@ EXCEPT !.pc = "flagged",
                        !.emergency_alerts =
                           with_crisis(check_red_flags(canonical_for_flags(local(t, "symptoms"))),
                                       local(t, "crisis_triggered"))]]
  /\ UNCHANGED <<kb, call>>

\* advice, body_system_groups and the response
FollowupRespond(t) ==
  /\ th[t].pc = "flagged" /\ th[t].route = "symptom-followup"
  /\ th' = [th EXCEPT ![t] =
              [@ EXCEPT !.pc = "responded",
                        !.response =
                           ok_response(followup_analysis(
                              local(t, "symptoms"), local(t, "demo"), local(t, "results"),
                              local(t, "emergency_alerts")))]]
  /\ UNCHANGED <<kb, call>>

\* the response is sent and the locals of the invocation are gone
Finish(t) ==
  /\ th[t].pc = "responded"
  /\ th' = [th EXCEPT ![t] = [Idle EXCEPT !.served = th[t].served + 1]]
  /\ UNCHANGED <<kb, call>>

Next ==
  \E t \in Threads :
    \/ Receive(t) \/ Validate(t)
    \/ CheckFlags(t) \/ CheckMatch(t) \/ CheckRespond(t)
    \/ FollowupMatch(t) \/ FollowupBoost(t) \/ FollowupFlags(t) \/ FollowupRespond(t)
    \/ Finish(t)

Spec == Init /\ [][Next]_vars

\* the response of a request served alone
served_alone(route, data) ==
  IF route = "symptom-check" THEN check_symptoms(data) ELSE symptom_followup(data)

\* what a response says about emergencies
C5_emergency(response) ==
  IF response.status = 200
  THEN [present |-> TRUE, emergency_alerts |-> response.analysis.emergency_alerts,
        emergency |-> response.analysis.emergency]
  ELSE [present |-> FALSE, emergency_alerts |-> <<>>, emergency |-> FALSE]

C5_symptoms(data) ==
  IF data.t = "dict" THEN data_get(data, "symptoms", JList(<<>>)) ELSE JNull

\* C5: two symptom-check requests with the same symptom list, whatever their
\* age, sex and severity_map, are answered with the same emergency_alerts list
\* and the same emergency flag.
C5_RedFlagIndependence ==
  \A t, u \in Threads :
    ( /\ th[t].pc = "responded" /\ th[u].pc = "responded"
      /\ th[t].route = "symptom-check" /\ th[u].route = "symptom-check"
      /\ th[t].data.t = "dict" /\ th[u].data.t = "dict"
      /\ C5_symptoms(th[t].data) = C5_symptoms(th[u].data) )
    => C5_emergency(th[t].response) = C5_emergency(th[u].response)

C20_malformed(severity_map) ==
  \/ severity_map.t # "dict"
  \/ \E i \in 1..Len(severity_map.v) :
       \/ severity_map.v[i][2].t # "str"
       \/ severity_map.v[i][2].v \notin {"mild", "moderate", "severe"}

\* the request body without its severity_map
C20_without_map(data) ==
  JDict(SelectSeq(data.v, LAMBDA entry : entry[1] # "severity_map"))

\* C20: a symptom-check request whose symptom list validates is answered
\* successfully whatever its severity_map: when the severity_map is malformed
\* the response is a success, and when it is not a mapping at all the response
\* is the one of the same request without a severity_map (multiplier 1.0).
C20_SeverityMapTolerated ==
  \A t \in Threads :
    ( /\ th[t].pc = "responded"
      /\ th[t].route = "symptom-check"
      /\ th[t].data.t = "dict"
      /\ dict_has(th[t].data.v, "severity_map")
      /\ C20_malformed(dict_get(th[t].data.v, "severity_map"))
      /\ validate_symptoms(C5_symptoms(th[t].data)).error = "" )
    => /\ th[t].response.status = 200
       /\ dict_get(th[t].data.v, "severity_map").t # "dict"
            => th[t].response = check_symptoms(C20_without_map(th[t].data))

\* the answers of a follow-up request give self_harm a truthy value
C26_self_harm(data) ==
  /\ dict_has(data.v, "answers")
  /\ dict_get(data.v, "answers").t = "dict"
  /\ dict_has(dict_get(data.v, "answers").v, "self_harm")
  /\ str_lower(py_str(dict_get(dict_get(data.v, "answers").v, "self_harm")))
       \in {"yes", "true", "1"}

\* C26: every valid symptom-followup request whose answers give self_harm a
\* truthy value, whatever its symptoms, is answered with emergency = true, the
\* advice level emergency and exactly one alert named 'Suicidal Crisis
\* Indicators'.
C26_SelfHarmEscalates ==
  \A t \in Threads :
    ( /\ th[t].pc = "responded"
      /\ th[t].route = "symptom-followup"
      /\ th[t].data.t = "dict"
      /\ th[t].response.status = 200
      /\ C26_self_harm(th[t].data) )
    => /\ th[t].response.analysis.emergency
       /\ th[t].response.analysis.advice.level = "emergency"
       /\ Cardinality({i \in 1..Len(th[t].response.analysis.emergency_alerts) :
                         th[t].response.analysis.emergency_alerts[i].name
                           = "Suicidal Crisis Indicators"}) = 1

(***************************************************************************)
(* The matching loop of match_symptoms on its own: one step of the loop    *)
(* over the known symptoms (a known symptom of the depression table, a     *)
(* canonical form close to it, the best candidate found before it), and    *)
(* the whole loop for one user symptom against one condition.              *)
(***************************************************************************)
FzCanonicals == {"insomnxy", "insomnixyzw", "lonelinexyz", "anxieyt", "stresxx"}

\* three entries of the depression table
FzKnown ==
  LET symptoms == SYMPTOM_DATABASE[4].symptoms
  IN  {symptoms[i] : i \in {j \in 1..Len(symptoms) :
                               symptoms[j][1] \in {"insomnia", "loneliness", "stress"}}}

\* best_match / best_score before the step
FzBests ==
  { NoMatch,
    [has |-> TRUE, match |-> "fatigue", score |-> One],
    [has |-> TRUE, match |-> "low energy", score |-> <<3, 2>>],
    [has |-> TRUE, match |-> "loss of interest", score |-> <<15, 8>>],
    [has |-> TRUE, match |-> "sadness", score |-> <<5, 2>>] }

\* similarities on both sides of the threshold
FzSimilarities == {<<749, 1000>>, <<3, 4>>, <<4, 5>>}

\* user symptoms matched against a whole table: names of the tables (some
\* contained in longer names of the same table), a synonym, typos, one word
\* shared by many names, and a text that matches nothing
FzSymptoms ==
  {"back pain", "Arm Pain", "sadness", "chest pian", "tired", "frequent infections",
   "restlessness", "numbness", "pain", "zzz"}

\* severity maps of the second kind of call
FzSeverityMaps ==
  { JDict(<<>>),
    JDict(<< <<"back pain", JStr("severe")>>, <<"sadness", JStr("mild")>>,
             <<"Arm Pain", JStr("extreme")>>, <<"pain", JStr("severe")>> >>) }

NoEntry == [kind |-> "none"]

\* the two kinds of call: one step of the loop over the known symptoms, and the
\* whole loop for one user symptom and one condition
InitFuzzy ==
  /\ kb = KB0
  /\ th = Off
  /\ call \in
       {[ pc |-> "start", canonical |-> c, known_symptom |-> k[1], weight |-> k[2],
          best |-> b, chained |-> b, measured |-> FALSE, similarity |-> Zero,
          out |-> b, user_symptom |-> c, condition |-> 4, severity_map |-> JDict(<<>>),
          entry |-> NoEntry ] : c \in FzCanonicals, k \in FzKnown, b \in FzBests}
       \cup
       {[ pc |-> "symptom", canonical |-> "", known_symptom |-> "", weight |-> Zero,
          best |-> NoMatch, chained |-> NoMatch, measured |-> FALSE, similarity |-> Zero,
          out |-> NoMatch, user_symptom |-> s, condition |-> d, severity_map |-> m,
          entry |-> NoEntry ]
          : s \in FzSymptoms, d \in 1..Len(SYMPTOM_DATABASE), m \in FzSeverityMaps}

\* one iteration of the loop over the known symptoms, canonical != known_symptom
FzStep ==
  /\ call.pc = "start"
  /\ LET step(chained) ==
           call' = [call EXCEPT
                      !.pc = "stepped",
                      !.chained = chained,
                      !.measured = RGt(call.weight, chained.score),
                      !.similarity = IF RGt(call.weight, chained.score)
                                     THEN _fuzzy_similarity(call.canonical, call.known_symptom)
                                     ELSE Zero,
                      !.out = fuzzy_step(call.canonical, call.known_symptom, call.weight,
                                         chained)]
     IN  step(after_chain(call.canonical, call.known_symptom, call.weight, call.best))
  /\ UNCHANGED <<kb, th>>

\* the threshold test of the fuzzy branch at a given similarity
FzJudge ==
  /\ call.pc = "start"
  /\ RGt(call.weight, call.best.score)
  /\ \E similarity \in FzSimilarities :
       call' = [call EXCEPT
                  !.pc = "judged", !.measured = TRUE, !.similarity = similarity,
                  !.out = fuzzy_accept(call.known_symptom, call.weight, similarity, call.best)]
  /\ UNCHANGED <<kb, th>>

\* the body of `for idx, user_symptom in enumerate(user_symptoms)` for one
\* user symptom and one condition
FzMatch ==
  /\ call.pc = "symptom"
  /\ LET matched(canonical) ==
           call' = [call EXCEPT
                      !.pc = "matched",
                      !.canonical = canonical,
                      !.out = best_known(kb.SYMPTOM_DATABASE[call.condition], canonical),
                      !.entry = symptom_match(kb.SYMPTOM_DATABASE[call.condition],
                                              call.user_symptom, canonical,
                                              call.severity_map)]
     IN  matched(expand_synonyms(call.user_symptom))
  /\ UNCHANGED <<kb, th>>

NextFuzzy == FzStep \/ FzJudge \/ FzMatch

SpecFuzzy == InitFuzzy /\ [][NextFuzzy]_vars

C19_accepted ==
  /\ call.out.has
  /\ call.out.match = call.known_symptom
  /\ call.out.score = RMul(call.weight, call.similarity)

\* C19: with no earlier candidate scoring at least weight x similarity, the
\* fuzzy candidate is accepted when its similarity is exactly 0.75 and rejected
\* when it is 0.749: it is accepted exactly when similarity >= 0.75.
C19_Threshold ==
  ( /\ call.pc \in {"stepped", "judged"}
    /\ call.measured
    /\ RGt(RMul(call.weight, call.similarity), call.chained.score) )
  => /\ call.similarity = <<3, 4>> => C19_accepted
     /\ call.similarity = <<749, 1000>> => call.out = call.chained
     /\ IF 4 * call.similarity[1] >= 3 * call.similarity[2]
        THEN C19_accepted
        ELSE call.out = call.chained

\* "insomnxy" is at similarity 12/16 from "insomnia" and is matched to it
C19_Witness ==
  /\ call.pc = "stepped"
  /\ call.canonical = "insomnxy"
  /\ call.known_symptom = "insomnia"
  /\ call.measured
  /\ call.similarity = <<3, 4>>
  /\ call.chained.score = One
  /\ call.out = [has |-> TRUE, match |-> "insomnia", score |-> <<15, 8>>]

\* the candidate scores of one known symptom for a canonical form: exact,
\* substring, token overlap, fuzzy
C22_candidates(canonical, known_symptom, weight) ==
  LET user_words == set_of(str_split(canonical))
      symptom_words == set_of(str_split(known_symptom))
      no == Cardinality(user_words \cap symptom_words)
      nu == Cardinality(user_words)
      ns == Cardinality(symptom_words)
      fuzzy(similarity) ==
        IF 4 * similarity[1] >= 3 * similarity[2] THEN {RMul(weight, similarity)} ELSE {}
  IN  (IF canonical = known_symptom THEN {weight} ELSE {})
      \cup (IF str_in(canonical, known_symptom) \/ str_in(known_symptom, canonical)
            THEN {weight} ELSE {})
      \cup (IF no >= 1 /\ 10 * no > 4 * (IF nu >= ns THEN nu ELSE ns)
            THEN {RMul(weight, Norm(no, ns))} ELSE {})
      \cup fuzzy(_fuzzy_similarity(canonical, known_symptom))

\* <<position in the table, candidate score>> for every candidate of a condition
C22_scored(symptoms, canonical) ==
  UNION {{<<i, s>> : s \in C22_candidates(canonical, symptoms[i][1], symptoms[i][2])}
         : i \in 1..Len(symptoms)}

C22_top(scored) == CHOOSE c \in scored : \A o \in scored : RGe(c[2], o[2])

\* the first position of the table holding a candidate with the top score
C22_first_top(scored, top) ==
  CHOOSE i \in {c[1] : c \in scored} :
    /\ <<i, top>> \in scored
    /\ \A c \in scored : c[2] = top => i <= c[1]

C22_is_best(symptoms, scored) ==
  scored # {} =>
    /\ call.out.has
    /\ call.out.score = C22_top(scored)[2]
    /\ \E c \in scored : symptoms[c[1]][1] = call.out.match /\ c[2] = call.out.score

\* C22: for one user symptom and one condition at most one matched symptom is
\* recorded, and it is the known symptom with the highest candidate score
\* among all the exact, substring, token-overlap and fuzzy candidates.
C22_HighestCandidate ==
  call.pc = "matched" =>
    /\ call.entry.kind \in {"matched", "none"}
    /\ call.entry.kind = "matched" => call.entry.entry.matched_to = call.out.match
    /\ C22_is_best(SYMPTOM_DATABASE[call.condition].symptoms,
                   C22_scored(SYMPTOM_DATABASE[call.condition].symptoms, call.canonical))

C22_exact_or_best(symptoms, scored) ==
  IF \E i \in 1..Len(symptoms) : symptoms[i][1] = call.canonical
  THEN /\ call.out.has
       /\ call.out.match = call.canonical
       /\ \E i \in 1..Len(symptoms) :
            symptoms[i][1] = call.canonical /\ symptoms[i][2] = call.out.score
  ELSE /\ call.out.has <=> scored # {}
       /\ scored # {} =>
            /\ call.out.score = C22_top(scored)[2]
            /\ call.out.match = symptoms[C22_first_top(scored, call.out.score)][1]

\* C22 as the code has it: at most one matched symptom is recorded; it is the
\* known symptom equal to the canonical form when there is one, whatever the
\* other candidates score, and otherwise the known symptom with the highest
\* candidate score, the first of the table among equals.
C22_ExactElseHighest ==
  call.pc = "matched" =>
    /\ call.entry.kind \in {"matched", "none"}
    /\ call.entry.kind = "matched" <=> call.out.has
    /\ call.entry.kind = "matched" => call.entry.entry.matched_to = call.out.match
    /\ C22_exact_or_best(SYMPTOM_DATABASE[call.condition].symptoms,
                         C22_scored(SYMPTOM_DATABASE[call.condition].symptoms, call.canonical))

\* "back pain" against the heart table: recorded with its own weight 0.5,
\* while "chest pain" is a token-overlap candidate at 1.5
C22_Witness ==
  /\ call.pc = "matched"
  /\ call.canonical = "back pain"
  /\ call.condition = 1
  /\ call.out = [has |-> TRUE, match |-> "back pain", score |-> <<1, 2>>]
  /\ <<1, <<3, 2>>>> \in C22_scored(SYMPTOM_DATABASE[1].symptoms, "back pain")

\* the multiplier of the label the severity map gives to the user symptom
C23_multiplier(severity_map, user_symptom) ==
  LET labels == {severity_map.v[i][2] : i \in {j \in 1..Len(severity_map.v) :
                                                 severity_map.v[j][1] = user_symptom}}
  IN  IF JStr("mild") \in labels THEN <<7, 10>>
      ELSE IF JStr("severe") \in labels THEN <<7, 5>>
      ELSE One

\* C23: when the canonical form of the user symptom is a known symptom of the
\* condition, that known symptom is the one recorded and its weight is the
\* table weight times the severity multiplier, whatever the known symptoms
\* scanned before it scored.
C23_ExactMatch ==
  call.pc = "matched" =>
    \A i \in 1..Len(SYMPTOM_DATABASE[call.condition].symptoms) :
      SYMPTOM_DATABASE[call.condition].symptoms[i][1] = call.canonical =>
        /\ call.entry.kind = "matched"
        /\ call.entry.entry.matched_to = call.canonical
        /\ call.entry.entry.weight =
             RMul(SYMPTOM_DATABASE[call.condition].symptoms[i][2],
                  C23_multiplier(call.severity_map, call.user_symptom))

\* "sadness", labelled mild, against the depression table: "persistent
\* sadness" comes first and is a substring candidate at 3; "sadness" is
\* recorded with 2.5 x 0.7
C23_Witness ==
  /\ call.pc = "matched"
  /\ call.user_symptom = "sadness"
  /\ call.condition = 4
  /\ SYMPTOM_DATABASE[4].symptoms[1] = <<"persistent sadness", <<3, 1>>>>
  /\ call.entry.kind = "matched"
  /\ call.entry.entry.matched_to = "sadness"
  /\ call.entry.entry.weight = <<7, 4>>

\* one iteration of the loop with the fuzzy test made whatever the weight
C24_unchecked_step(canonical, known_symptom, weight, best) ==
  fuzzy_accept(known_symptom, weight, _fuzzy_similarity(canonical, known_symptom),
               after_chain(canonical, known_symptom, weight, best))

RECURSIVE C24_unchecked_scan(_, _, _, _)
\* the loop over the known symptoms made of such iterations
C24_unchecked_scan(symptoms, canonical, k, best) ==
  IF k > Len(symptoms) THEN best
  ELSE IF canonical = symptoms[k][1]
  THEN [has |-> TRUE, match |-> symptoms[k][1], score |-> symptoms[k][2]]
  ELSE LET onward(stepped) ==
             IF stepped.has
             THEN C24_unchecked_scan(symptoms, canonical, k + 1, stepped)
             ELSE C24_unchecked_scan(symptoms, canonical, k + 1, NoMatch)
       IN  onward(C24_unchecked_step(canonical, symptoms[k][1], symptoms[k][2], best))

\* C24: there are inputs for which the fuzzy candidate of a known symptom is
\* skipped by the test `weight > best_score` although weight x similarity
\* would have exceeded the best score: among the steps and the scans of this
\* specification, one where matching with the test and matching without it
\* select different best matches.
C24_PrecheckLosesCandidate ==
  \/ \E c \in FzCanonicals, k \in FzKnown, b \in FzBests :
       known_step(c, k[1], k[2], b) # C24_unchecked_step(c, k[1], k[2], b)
  \/ \E s \in FzSymptoms, d \in 1..Len(SYMPTOM_DATABASE) :
       best_known(SYMPTOM_DATABASE[d], expand_synonyms(s))
         # C24_unchecked_scan(SYMPTOM_DATABASE[d].symptoms, expand_synonyms(s), 1, NoMatch)

\* C24 as the code has it: a fuzzy candidate scores weight x similarity, at
\* most the weight, so a candidate skipped because the weight does not exceed
\* the best score could not have exceeded it either; matching with the test
\* and matching without it select the same best match and score.
C24_PrecheckHarmless ==
  /\ call.pc = "stepped" =>
       /\ call.out = C24_unchecked_step(call.canonical, call.known_symptom, call.weight,
                                        call.best)
       /\ ~call.measured =>
            RLe(RMul(call.weight, _fuzzy_similarity(call.canonical, call.known_symptom)),
                call.chained.score)
  /\ call.pc = "matched" =>
       call.out = C24_unchecked_scan(SYMPTOM_DATABASE[call.condition].symptoms,
                                     call.canonical, 1, NoMatch)

\* "insomnxy" is at similarity 0.75 from "insomnia" (weight 2.5) and the best
\* score so far is 2.5: the fuzzy test is skipped and the best match stays
C24_Witness ==
  /\ call.pc = "stepped"
  /\ call.canonical = "insomnxy"
  /\ call.known_symptom = "insomnia"
  /\ call.chained.score = <<5, 2>>
  /\ ~call.measured
  /\ _fuzzy_similarity(call.canonical, call.known_symptom) = <<3, 4>>
  /\ call.out = call.chained
====
